---- MODULE Spec2Model ----
(***************************************************************************)
(* Model of the MyBody health tracker: the entry stores of App             *)
(* (foods, exercises, weights, measurements), the BMR / DailyStats         *)
(* derivation of App and the period aggregation helpers of StatsModule.    *)
(*                                                                         *)
(* Numbers.  Energies (kcal) and weights (kg) are fixed-point numbers with *)
(* two decimals, stored as the integer 100 * value; age and heightCm are   *)
(* integers.  6.25 * heightCm is then 625 * heightCm, exactly.             *)
(*                                                                         *)
(* Dates.  A JavaScript Date is modelled by its local wall-clock reading   *)
(* [day, ms]: day is the number of the local calendar day counted from     *)
(* 1970-01-01 and ms the milliseconds since local midnight.  The time zone *)
(* has a fixed offset, so getTime() order is the lexicographic order of    *)
(* (day, ms).  An ISO date string of an entry is modelled by the instant   *)
(* it denotes.                                                             *)
(***************************************************************************)
EXTENDS Integers, Sequences, FiniteSets, TLC

\* ------------------------------------------------------------------------
\* Bounds of the model
\* ------------------------------------------------------------------------

\* total number of entries held by the four collections together
MaxEntries == 3

\* number of consecutive view dates the statistics helpers are called with
NumViewDays == 8

\* length of the data array handed to the statistics helpers
MaxData == 2

\* ------------------------------------------------------------------------
\* Fixed-point numbers
\* ------------------------------------------------------------------------

Fx(n) == 100 * n

\* ------------------------------------------------------------------------
\* Date (the part of the JavaScript Date object the program uses)
\* ------------------------------------------------------------------------

\* setHours(23, 59, 59, 999)
EndOfDayMs == ((23 * 60 + 59) * 60 + 59) * 1000 + 999

\* setHours(0, 0, 0, 0)
StartOfDayMs == 0

\* day number of the civil date y-m-d (m in 1..12), proleptic Gregorian
DaysFromCivil(y, m, d) ==
  LET yy  == IF m <= 2 THEN y - 1 ELSE y
      era == yy \div 400
      yoe == yy - era * 400
      mp  == IF m > 2 THEN m - 3 ELSE m + 9
      doy == (153 * mp + 2) \div 5 + d - 1
      doe == yoe * 365 + yoe \div 4 - yoe \div 100 + doy
  IN  era * 146097 + doe - 719468

\* civil date of a day number, computed in steps: the era of 400 years,
\* the day and the year of the era, the day of the year, the month
CivilOfMonth(era, yoe, d, m) ==
  [y |-> yoe + era * 400 + (IF m <= 2 THEN 1 ELSE 0), m |-> m, d |-> d]

CivilOfMp(era, yoe, doy, mp) ==
  CivilOfMonth(era, yoe, doy - (153 * mp + 2) \div 5 + 1,
               IF mp < 10 THEN mp + 3 ELSE mp - 9)

CivilOfDoy(era, yoe, doy) == CivilOfMp(era, yoe, doy, (5 * doy + 2) \div 153)

CivilOfYoe(era, doe, yoe) ==
  CivilOfDoy(era, yoe, doe - (365 * yoe + yoe \div 4 - yoe \div 100))

CivilOfDoe(era, doe) ==
  CivilOfYoe(era, doe,
             (doe - doe \div 1460 + doe \div 36524 - doe \div 146096) \div 365)

CivilOfShifted(zz) == CivilOfDoe(zz \div 146097, zz % 146097)

CivilFromDays(z) == CivilOfShifted(z + 719468)

\* new Date(year, monthIndex, date): monthIndex is 0-based and may be 12 or
\* more, date may be 0 or negative or past the end of the month
MakeDay(year, monthIndex, date) ==
  DaysFromCivil(year + monthIndex \div 12, (monthIndex % 12) + 1, 1) + date - 1

MkDate(day, ms) == [day |-> day, ms |-> ms]

getFullYear(t) == CivilFromDays(t.day).y

\* 0-based month
getMonth(t) == CivilFromDays(t.day).m - 1

\* day of the month
getDate(t) == CivilFromDays(t.day).d

\* day of the week, 0 is Sunday (1970-01-01 was a Thursday)
getDay(t) == (t.day + 4) % 7

\* d.setDate(n)
setDate(t, n) == MkDate(MakeDay(getFullYear(t), getMonth(t), n), t.ms)

\* d.setHours(h, m, s, ms), given as milliseconds since midnight
setHours(t, ms) == MkDate(t.day, ms)

\* a.getTime() <= b.getTime()
DateLeq(a, b) == a.day < b.day \/ (a.day = b.day /\ a.ms <= b.ms)

\* a.getTime() - b.getTime() < 0, = 0, > 0 as -1, 0, 1
DateCmp(a, b) == IF a = b THEN 0 ELSE IF DateLeq(a, b) THEN -1 ELSE 1

\* toLocaleDateString(): the local calendar date, as (year, month, day)
DateString(c) == <<c.y, c.m, c.d>>

toLocaleDateString(t) == DateString(CivilFromDays(t.day))

\* ------------------------------------------------------------------------
\* BMR (App.calculateBMR)
\* ------------------------------------------------------------------------

DEFAULT_PROFILE_ID == "default_user_1"

INITIAL_PROFILE ==
  [id |-> DEFAULT_PROFILE_ID, gender |-> "female", age |-> 30, heightCm |-> 165]

\* the male constant for every gender
calculateBMR_SameForAll(p, w) == (10 * w) + (625 * p.heightCm) - (Fx(5) * p.age) + Fx(5)

calculateBMR(p, w) ==
  LET bmr == (10 * w) + (625 * p.heightCm) - (Fx(5) * p.age)
  IN  IF p.gender = "male" THEN bmr + Fx(5) ELSE bmr - Fx(161)

\* ------------------------------------------------------------------------
\* Inputs of the application
\* ------------------------------------------------------------------------

\* Clock readings (Date.now(), new Date()): the first and the last
\* millisecond of 2024-02-29 and the first millisecond of 2024-03-01
Times ==
  {MkDate(DaysFromCivil(2024, 2, 29), StartOfDayMs),
   MkDate(DaysFromCivil(2024, 2, 29), EndOfDayMs),
   MkDate(DaysFromCivil(2024, 3, 1), StartOfDayMs)}

\* the clock reading at the construction of App (useState(new Date()))
ConstructionTime == MkDate(DaysFromCivil(2024, 2, 29), StartOfDayMs)

\* the calendar days of the clock readings
Days == {t.day : t \in Times}

\* Date.now().toString(): the decimal string of the clock reading, one
\* string per reading
DateNowString(t) == <<t.day, t.ms>>

AllIds == {DateNowString(t) : t \in Times}

\* parseInt(calories) of the food form
CalorieInputs == {Fx(300)}

\* parseInt(duration), parseInt(calories) of the exercise form
\* (steps 0: the steps field of the form left empty)
ExerciseInputs == {[durationMinutes |-> 30, caloriesBurned |-> Fx(200), steps |-> 0]}

\* parseFloat(newWeight) of the weight form
WeightInputs == {Fx(60), Fx(75)}

\* the measurement form, as BodyModule initialises it
MeasureForm ==
  [bust |-> 0, waist |-> 0, tummy |-> 0, hips |-> 0, thighRight |-> 0,
   thighLeft |-> 0, armRight |-> 0, armLeft |-> 0, calfRight |-> 0,
   calfLeft |-> 0]

\* contents of the profile form on save (the id is not editable)
ProfileForms ==
  {[id |-> DEFAULT_PROFILE_ID, gender |-> "female", age |-> 30, heightCm |-> 165],
   [id |-> DEFAULT_PROFILE_ID, gender |-> "male", age |-> 41, heightCm |-> 180]}

APP_VERSION == "1.3.0"

\* ------------------------------------------------------------------------
\* localStorage
\* ------------------------------------------------------------------------

\* getItem returns null for an absent key; a stored value v is <<v>>
NoItem == <<>>

Item(v) == <<v>>

HasItem(x) == Len(x) = 1

ItemValue(x) == x[1]

Collections == {"foods", "exercises", "weights", "measurements"}

ProfileIds == {DEFAULT_PROFILE_ID}

\* the key `vs_${collection}_${profileId}`
CollectionKey(c, pid) == <<c, pid>>

GlobalKey(k) == <<k, "">>

StorageKeys ==
  {GlobalKey(k) : k \in {"vs_profiles", "vs_active_id", "vs_app_version"}}
    \cup {CollectionKey(c, pid) : c \in Collections, pid \in ProfileIds}

EmptyStorage == [k \in StorageKeys |-> NoItem]

\* saveToStorage(key, data): localStorage.setItem(key, JSON.stringify(data))
saveToStorage(st, key, data) == [st EXCEPT ![key] = Item(data)]

\* storage of a first run, and of a user who saved a profile before
InitialStorages ==
  {EmptyStorage,
   [EmptyStorage EXCEPT
      ![GlobalKey("vs_profiles")] =
        Item(<<[id |-> DEFAULT_PROFILE_ID, gender |-> "male", age |-> 41,
                heightCm |-> 180]>>),
      ![GlobalKey("vs_active_id")] = Item(DEFAULT_PROFILE_ID)]}

\* ------------------------------------------------------------------------
\* State of App
\* ------------------------------------------------------------------------

VARIABLES
  isInitialized,     \* useState(false)
  profiles,          \* useState<UserProfile[]>([])
  currentProfileId,  \* useState<string>('')
  foods,             \* useState<FoodEntry[]>([])
  exercises,         \* useState<ExerciseEntry[]>([])
  weights,           \* useState<WeightEntry[]>([])
  measurements,      \* useState<MeasurementEntry[]>([])
  dashboardDate,     \* useState(new Date())
  statsMemo,         \* the array and the todayBMR of the statsHistory useMemo
  storage,           \* localStorage
  lastOp,            \* the handler that ran last, and what it did
  call,              \* one call of a pure function: its arguments and its result
  updates,           \* state updates (setter calls) queued for the next render
  expected,          \* what was issued so far (appends, deletes, pedometer totals)
  renderedAt         \* the clock reading of the last render of App (today)

appVars ==
  <<isInitialized, profiles, currentProfileId, foods, exercises, weights,
    measurements, dashboardDate, statsMemo, storage, lastOp>>

subVars == <<call, updates, expected, renderedAt>>

vars == <<appVars, subVars>>

\* ------------------------------------------------------------------------
\* Derived data of one render of App
\* ------------------------------------------------------------------------

RECURSIVE SumCalories(_, _)
\* list.reduce((acc, curr) => acc + curr.calories, 0), from index i
SumCalories(list, i) ==
  IF i > Len(list) THEN 0 ELSE list[i].calories + SumCalories(list, i + 1)

RECURSIVE SumCaloriesBurned(_, _)
\* list.reduce((acc, curr) => acc + curr.caloriesBurned, 0), from index i
SumCaloriesBurned(list, i) ==
  IF i > Len(list) THEN 0 ELSE list[i].caloriesBurned + SumCaloriesBurned(list, i + 1)

RECURSIVE SumDurationMinutes(_, _)
\* list.reduce((acc, curr) => acc + curr.durationMinutes, 0), from index i
SumDurationMinutes(list, i) ==
  IF i > Len(list) THEN 0 ELSE list[i].durationMinutes + SumDurationMinutes(list, i + 1)

\* profiles.find(p => p.id === currentProfileId) || INITIAL_PROFILE
currentProfileOf(ps, pid) ==
  IF \E i \in 1..Len(ps) : ps[i].id = pid
    THEN ps[CHOOSE i \in 1..Len(ps) :
                /\ ps[i].id = pid
                /\ \A j \in 1..(i - 1) : ps[j].id # pid]
    ELSE INITIAL_PROFILE

\* no filter by date
OnDate_All(list, dateStr) == list

\* list.filter(e => new Date(e.date).toLocaleDateString() === dateStr)
OnDate(list, dateStr) ==
  SelectSeq(list, LAMBDA e : toLocaleDateString(e.date) = dateStr)

\* x put behind the last element of sorted whose date is not later
InsertByDate(sorted, x) ==
  LET k == Cardinality({i \in 1..Len(sorted) : DateCmp(sorted[i].date, x.date) <= 0})
  IN  SubSeq(sorted, 1, k) \o <<x>> \o SubSeq(sorted, k + 1, Len(sorted))

RECURSIVE SortByDate(_)
\* [...ws].sort((a, b) => getTime(a.date) - getTime(b.date)): ascending and
\* stable, entries of equal date keep their order
SortByDate(ws) ==
  IF Len(ws) = 0 THEN <<>>
  ELSE InsertByDate(SortByDate(SubSeq(ws, 1, Len(ws) - 1)), ws[Len(ws)])

RECURSIVE ApplicableWeight(_, _, _, _)
\* the loop of getWeightForDate over sorted, from index i, with break
ApplicableWeight(sorted, i, endOfDay, applicableWeight) ==
  IF i > Len(sorted) THEN applicableWeight
  ELSE IF DateLeq(sorted[i].date, endOfDay)
    THEN ApplicableWeight(sorted, i + 1, endOfDay, sorted[i].weight)
    ELSE applicableWeight

DefaultWeight == Fx(70)

\* let applicableWeight = sorted[0].weight; for (let w of sorted) ...
FirstApplicableWeight(sorted, endOfDay) ==
  ApplicableWeight(sorted, 1, endOfDay, sorted[1].weight)

\* the loop over the collection as it is, without the sort
getWeightForDate_Unsorted(ws, date) ==
  IF Len(ws) = 0 THEN DefaultWeight
  ELSE FirstApplicableWeight(ws, setHours(date, EndOfDayMs))

getWeightForDate(ws, date) ==
  IF Len(ws) = 0 THEN DefaultWeight
  ELSE FirstApplicableWeight(SortByDate(ws), setHours(date, EndOfDayMs))

latestWeightOf(ws) ==
  IF Len(ws) > 0 THEN ws[Len(ws)].weight ELSE DefaultWeight

\* the DailyStats object literal of dashboardStats
DailyStatsRecord(date, intake, burned, bmr, exerciseMinutes) ==
  [date            |-> date,
   intake          |-> intake,
   burned          |-> burned,
   bmr             |-> bmr,
   net             |-> intake - (bmr + burned),
   exerciseMinutes |-> exerciseMinutes]

\* dashboardStats from dashboardFoods, dashboardExercises, dashboardWeight
DashboardStatsFrom(p, date, dashboardFoods, dashboardExercises, dashboardWeight) ==
  DailyStatsRecord(date,
                   SumCalories(dashboardFoods, 1),
                   SumCaloriesBurned(dashboardExercises, 1),
                   calculateBMR(p, dashboardWeight),
                   SumDurationMinutes(dashboardExercises, 1))

DashboardStatsOn(p, fs, es, ws, date, dashboardDateStr) ==
  DashboardStatsFrom(p, date, OnDate(fs, dashboardDateStr),
                     OnDate(es, dashboardDateStr), getWeightForDate(ws, date))

\* the dashboardStats record of a render
dashboardStatsOf(ps, pid, fs, es, ws, date) ==
  DashboardStatsOn(currentProfileOf(ps, pid), fs, es, ws, date,
                   toLocaleDateString(date))

todayBMROf(ps, pid, ws) == calculateBMR(currentProfileOf(ps, pid), latestWeightOf(ws))

\* map.has(d) / map.get(d) on a Map kept as the sequence of its entries
MapHas(map, d) == \E i \in 1..Len(map) : map[i].key = d

MapIndex(map, d) == CHOOSE i \in 1..Len(map) : map[i].key = d

\* if (!map.has(d)) map.set(d, {date, intake: 0, burned: 0, bmr, net: 0, ...})
MapEnsure(map, d, date, bmr) ==
  IF MapHas(map, d) THEN map
  ELSE Append(map, [key |-> d,
                    val |-> [date |-> date, intake |-> 0, burned |-> 0,
                             bmr |-> bmr, net |-> 0, exerciseMinutes |-> 0]])

\* entry.intake += calories; entry.burned += burned; entry.exerciseMinutes += mins
MapAdd(map, k, calories, burned, mins) ==
  [map EXCEPT ![k].val.intake = @ + calories,
              ![k].val.burned = @ + burned,
              ![k].val.exerciseMinutes = @ + mins]

MapAddOn(map, d, calories, burned, mins) ==
  MapAdd(map, MapIndex(map, d), calories, burned, mins)

\* the body of both forEach callbacks
HistoryStep(map, d, date, bmr, calories, burned, mins) ==
  MapAddOn(MapEnsure(map, d, date, bmr), d, calories, burned, mins)

RECURSIVE HistoryFoods(_, _, _, _)
\* foods.forEach(f => ...)
HistoryFoods(map, fs, i, bmr) ==
  IF i > Len(fs) THEN map
  ELSE HistoryFoods(
         HistoryStep(map, toLocaleDateString(fs[i].date), fs[i].date, bmr,
                     fs[i].calories, 0, 0),
         fs, i + 1, bmr)

RECURSIVE HistoryExercises(_, _, _, _)
\* exercises.forEach(e => ...)
HistoryExercises(map, es, i, bmr) ==
  IF i > Len(es) THEN map
  ELSE HistoryExercises(
         HistoryStep(map, toLocaleDateString(es[i].date), es[i].date, bmr,
                     0, es[i].caloriesBurned, es[i].durationMinutes),
         es, i + 1, bmr)

\* net left as the map holds it
WithNet_Unset(s) == s

\* Array.from(map.values()).map(s => ({...s, net: s.intake - (s.bmr + s.burned)}))
WithNet(s) == [s EXCEPT !.net = s.intake - (s.bmr + s.burned)]

MapValues(map) == [i \in 1..Len(map) |-> WithNet(map[i].val)]

\* the function of the statsHistory useMemo
computeStatsHistory(fs, es, todayBMR) ==
  MapValues(HistoryExercises(HistoryFoods(<<>>, fs, 1, todayBMR), es, 1, todayBMR))

\* if (statsHistory.length === 0) statsHistory.push(dashboardStats)
PushIfEmpty(array, stats) == IF Len(array) = 0 THEN <<stats>> ELSE array

\* the useMemo: recompute when a dependency changed
Memoized(memo, entriesSet, fs, es, todayBMR) ==
  IF entriesSet \/ todayBMR # memo.todayBMR
    THEN computeStatsHistory(fs, es, todayBMR)
    ELSE memo.array

MemoRecord(array, todayBMR) == [array |-> array, todayBMR |-> todayBMR]

RenderWith(memo, entriesSet, fs, es, todayBMR, stats) ==
  MemoRecord(PushIfEmpty(Memoized(memo, entriesSet, fs, es, todayBMR), stats),
             todayBMR)

\* One render of App after a state change.  The useMemo recomputes when a
\* dependency changed: foods or exercises were set (every setter call makes
\* a new array) or todayBMR has another value.  Then, on every render,
\* if (statsHistory.length === 0) statsHistory.push(dashboardStats) pushes
\* into the memoized array itself.
renderStatsMemo(memo, entriesSet, ps, pid, fs, es, ws, date) ==
  RenderWith(memo, entriesSet, fs, es, todayBMROf(ps, pid, ws),
             dashboardStatsOf(ps, pid, fs, es, ws, date))

\* what the current render shows
currentProfile == currentProfileOf(profiles, currentProfileId)

dashboardStats ==
  dashboardStatsOf(profiles, currentProfileId, foods, exercises, weights, dashboardDate)

latestWeight == latestWeightOf(weights)

todayBMR == todayBMROf(profiles, currentProfileId, weights)

statsHistory == statsMemo.array

\* ------------------------------------------------------------------------
\* Construction and start-up
\* ------------------------------------------------------------------------

IdsOf(list) == {list[i].id : i \in 1..Len(list)}

\* lastOp: whether the last handler was a delete handler and, for a delete
\* of id on the collection before that left the collection after: how many
\* entries it removed, whether no entry had the id, and whether contents
\* and order of the collection are as before
NoOp == [op |-> "other", removed |-> 0, absent |-> FALSE, unchanged |-> TRUE]

DeleteOp(before, after, id) ==
  [op |-> "delete", removed |-> Len(before) - Len(after),
   absent |-> id \notin IdsOf(before), unchanged |-> after = before]

NoCall == [fn |-> "none"]

\* The state after the first render: every useState holds its initial value,
\* dashboardDate the clock reading of the construction, and the first render
\* has pushed its dashboardStats into the empty statsHistory.
AppInit ==
  /\ isInitialized = FALSE
  /\ profiles = <<>>
  /\ currentProfileId = ""
  /\ foods = <<>>
  /\ exercises = <<>>
  /\ weights = <<>>
  /\ measurements = <<>>
  /\ dashboardDate = ConstructionTime
  /\ statsMemo =
       renderStatsMemo([array |-> <<>>, todayBMR |-> todayBMROf(<<>>, "", <<>>)],
                       TRUE, <<>>, "", <<>>, <<>>, <<>>, dashboardDate)
  /\ storage \in InitialStorages
  /\ lastOp = NoOp

\* load(key, setter) of the load effect
load(st, c, pid) ==
  IF HasItem(st[CollectionKey(c, pid)])
    THEN ItemValue(st[CollectionKey(c, pid)])
    ELSE <<>>

\* The save effects of one profile id: the four collections, then the
\* profile list when it is not empty.
saveEffects(st, pid, ps, fs, es, ws, ms) ==
  LET s1 == saveToStorage(st, CollectionKey("foods", pid), fs)
      s2 == saveToStorage(s1, CollectionKey("exercises", pid), es)
      s3 == saveToStorage(s2, CollectionKey("weights", pid), ws)
      s4 == saveToStorage(s3, CollectionKey("measurements", pid), ms)
  IN  IF Len(ps) > 0 THEN saveToStorage(s4, GlobalKey("vs_profiles"), ps) ELSE s4

\* The effects of the mount, run to completion: the initialization effect
\* (normal load or first run), then, isInitialized and currentProfileId
\* having changed, the load effect and the save effects.
Initialize ==
  /\ ~isInitialized
  /\ LET storedProfiles == storage[GlobalKey("vs_profiles")]
         storedActiveId == storage[GlobalKey("vs_active_id")]
         parsedProfiles == ItemValue(storedProfiles)
         newProfiles    == IF HasItem(storedProfiles) THEN parsedProfiles
                           ELSE <<INITIAL_PROFILE>>
         newId ==
           IF HasItem(storedProfiles)
             THEN IF /\ HasItem(storedActiveId)
                     /\ \E i \in 1..Len(parsedProfiles) :
                          parsedProfiles[i].id = ItemValue(storedActiveId)
                    THEN ItemValue(storedActiveId)
                    ELSE parsedProfiles[1].id
             ELSE INITIAL_PROFILE.id
         s1 == IF HasItem(storedProfiles) THEN storage
               ELSE saveToStorage(
                      saveToStorage(storage, GlobalKey("vs_profiles"), newProfiles),
                      GlobalKey("vs_active_id"), newId)
         s2 == IF s1[GlobalKey("vs_app_version")] # Item(APP_VERSION)
                 THEN [s1 EXCEPT ![GlobalKey("vs_app_version")] = Item(APP_VERSION)]
                 ELSE s1
         s3 == saveToStorage(s2, GlobalKey("vs_active_id"), newId)
     IN  /\ profiles' = newProfiles
         /\ currentProfileId' = newId
         /\ foods' = load(s3, "foods", newId)
         /\ exercises' = load(s3, "exercises", newId)
         /\ weights' = load(s3, "weights", newId)
         /\ measurements' = load(s3, "measurements", newId)
         /\ storage' = saveEffects(s3, newId, newProfiles, foods', exercises',
                                   weights', measurements')
  /\ isInitialized' = TRUE
  /\ statsMemo' = renderStatsMemo(statsMemo, TRUE, profiles', currentProfileId',
                                  foods', exercises', weights', dashboardDate)
  /\ lastOp' = NoOp
  /\ UNCHANGED <<dashboardDate, subVars>>

\* ------------------------------------------------------------------------
\* Handlers of App and of its views.  A handler runs with the state of the
\* last render; the render that follows it and the effects of that render
\* (the save effect of the collection that was set) are part of the action.
\* The views are rendered once isInitialized holds.  Date.now() and
\* new Date() read the wall clock of the device, an input: any reading t;
\* the two readings of one save handler (id and date) fall into the same
\* millisecond.  Of an entry the model keeps id, date and the numbers the
\* derivations read; name, macros, imageUrl, type and syncedWeight are
\* carried along by the code and read by no derivation.
\* ------------------------------------------------------------------------

NumEntries == Len(foods) + Len(exercises) + Len(weights) + Len(measurements)

render(entriesSet) ==
  statsMemo' = renderStatsMemo(statsMemo, entriesSet, profiles', currentProfileId',
                               foods', exercises', weights', dashboardDate')

\* an absent id removes the first entry
WithoutId_DropFirst(list, id) ==
  IF \E i \in 1..Len(list) : list[i].id = id
    THEN SelectSeq(list, LAMBDA e : e.id # id)
    ELSE SubSeq(list, 2, Len(list))

\* list.filter(e => e.id !== id)
WithoutId(list, id) == SelectSeq(list, LAMBDA e : e.id # id)

\* FoodModule.handleSaveEntry -> onAddEntry: setFoods([...foods, f])
FoodModule_handleSaveEntry(t, calories) ==
  /\ isInitialized
  /\ NumEntries < MaxEntries
  /\ foods' = Append(foods, [id |-> DateNowString(t), date |-> t,
                             calories |-> calories])
  /\ storage' = saveToStorage(storage, CollectionKey("foods", currentProfileId), foods')
  /\ lastOp' = NoOp
  /\ UNCHANGED <<isInitialized, profiles, currentProfileId, exercises, weights,
                 measurements, dashboardDate, subVars>>
  /\ render(TRUE)

\* ExerciseModule.handleSaveEntry -> onAddEntry: setExercises([...exercises, e])
ExerciseModule_handleSaveEntry(t, form) ==
  /\ isInitialized
  /\ NumEntries < MaxEntries
  /\ exercises' = Append(exercises,
                         [id |-> DateNowString(t), date |-> t,
                          durationMinutes |-> form.durationMinutes,
                          caloriesBurned |-> form.caloriesBurned,
                          steps |-> form.steps])
  /\ storage' = saveToStorage(storage, CollectionKey("exercises", currentProfileId),
                              exercises')
  /\ lastOp' = NoOp
  /\ UNCHANGED <<isInitialized, profiles, currentProfileId, foods, weights,
                 measurements, dashboardDate, subVars>>
  /\ render(TRUE)

\* BodyModule.handleSaveWeight -> onAddWeight: setWeights([...weights, w])
handleSaveWeight(t, newWeight) ==
  /\ isInitialized
  /\ NumEntries < MaxEntries
  /\ weights' = Append(weights, [id |-> DateNowString(t), date |-> t,
                                 weight |-> newWeight])
  /\ storage' = saveToStorage(storage, CollectionKey("weights", currentProfileId),
                              weights')
  /\ lastOp' = NoOp
  /\ UNCHANGED <<isInitialized, profiles, currentProfileId, foods, exercises,
                 measurements, dashboardDate, subVars>>
  /\ render(FALSE)

\* BodyModule.handleSaveMeasurement -> onAddMeasurement
handleSaveMeasurement(t) ==
  /\ isInitialized
  /\ NumEntries < MaxEntries
  /\ measurements' = Append(measurements,
                            [id |-> DateNowString(t), date |-> t,
                             measurements |-> MeasureForm])
  /\ storage' = saveToStorage(storage,
                              CollectionKey("measurements", currentProfileId),
                              measurements')
  /\ lastOp' = NoOp
  /\ UNCHANGED <<isInitialized, profiles, currentProfileId, foods, exercises,
                 weights, dashboardDate, subVars>>
  /\ render(FALSE)

handleDeleteFood(id) ==
  /\ isInitialized
  /\ foods' = WithoutId(foods, id)
  /\ storage' = saveToStorage(storage, CollectionKey("foods", currentProfileId), foods')
  /\ lastOp' = DeleteOp(foods, foods', id)
  /\ UNCHANGED <<isInitialized, profiles, currentProfileId, exercises, weights,
                 measurements, dashboardDate, subVars>>
  /\ render(TRUE)

handleDeleteExercise(id) ==
  /\ isInitialized
  /\ exercises' = WithoutId(exercises, id)
  /\ storage' = saveToStorage(storage, CollectionKey("exercises", currentProfileId),
                              exercises')
  /\ lastOp' = DeleteOp(exercises, exercises', id)
  /\ UNCHANGED <<isInitialized, profiles, currentProfileId, foods, weights,
                 measurements, dashboardDate, subVars>>
  /\ render(TRUE)

handleDeleteWeight(id) ==
  /\ isInitialized
  /\ weights' = WithoutId(weights, id)
  /\ storage' = saveToStorage(storage, CollectionKey("weights", currentProfileId),
                              weights')
  /\ lastOp' = DeleteOp(weights, weights', id)
  /\ UNCHANGED <<isInitialized, profiles, currentProfileId, foods, exercises,
                 measurements, dashboardDate, subVars>>
  /\ render(FALSE)

handleDeleteMeasurement(id) ==
  /\ isInitialized
  /\ measurements' = WithoutId(measurements, id)
  /\ storage' = saveToStorage(storage,
                              CollectionKey("measurements", currentProfileId),
                              measurements')
  /\ lastOp' = DeleteOp(measurements, measurements', id)
  /\ UNCHANGED <<isInitialized, profiles, currentProfileId, foods, exercises,
                 weights, dashboardDate, subVars>>
  /\ render(FALSE)

\* setProfiles(prev => prev.map(p => p.id === updatedProfile.id ? updatedProfile : p))
handleUpdateProfile(updatedProfile) ==
  /\ isInitialized
  /\ profiles' = [i \in 1..Len(profiles) |->
                    IF profiles[i].id = updatedProfile.id THEN updatedProfile
                    ELSE profiles[i]]
  /\ storage' = IF Len(profiles') > 0
                  THEN saveToStorage(storage, GlobalKey("vs_profiles"), profiles')
                  ELSE storage
  /\ lastOp' = NoOp
  /\ UNCHANGED <<isInitialized, currentProfileId, foods, exercises, weights,
                 measurements, dashboardDate, subVars>>
  /\ render(FALSE)

\* Dashboard: onDateChange(d) is setDashboardDate(d)
setDashboardDate(d) ==
  /\ isInitialized
  /\ d.day \in Days
  /\ dashboardDate' = d
  /\ lastOp' = NoOp
  /\ UNCHANGED <<isInitialized, profiles, currentProfileId, foods, exercises,
                 weights, measurements, storage, subVars>>
  /\ render(FALSE)

\* Dashboard.handlePrevDay
handlePrevDay == setDashboardDate(setDate(dashboardDate, getDate(dashboardDate) - 1))

\* Dashboard.handleNextDay; the button is disabled while isToday, which the
\* view computes from a clock reading t
handleNextDay(t) ==
  /\ toLocaleDateString(t) # toLocaleDateString(dashboardDate)
  /\ setDashboardDate(setDate(dashboardDate, getDate(dashboardDate) + 1))

\* Dashboard calendar: a click on day d of the month of the current date
handlePickDay(d) == setDashboardDate(setDate(dashboardDate, d))

\* ------------------------------------------------------------------------
\* StatsModule: ranges, filtering and aggregation
\* ------------------------------------------------------------------------

getStartOfDay(date) == setHours(date, StartOfDayMs)

getEndOfDay(date) == setHours(date, EndOfDayMs)

\* a week that starts on Monday
getStartOfWeek_Monday(date) ==
  setHours(setDate(date, getDate(date) - ((getDay(date) + 6) % 7)), StartOfDayMs)

\* d.setDate(d.getDate() - d.getDay()); d.setHours(0, 0, 0, 0)
getStartOfWeek(date) ==
  setHours(setDate(date, getDate(date) - getDay(date)), StartOfDayMs)

\* d.setDate(d.getDate() + 6); d.setHours(23, 59, 59, 999)
EndOfWeekFrom(d) == setHours(setDate(d, getDate(d) + 6), EndOfDayMs)

getEndOfWeek(date) == EndOfWeekFrom(getStartOfWeek(date))

\* new Date(date.getFullYear(), date.getMonth(), 1)
getStartOfMonth(date) ==
  MkDate(MakeDay(getFullYear(date), getMonth(date), 1), StartOfDayMs)

\* new Date(date.getFullYear(), date.getMonth() + 1, 0, 23, 59, 59, 999)
getEndOfMonth(date) ==
  MkDate(MakeDay(getFullYear(date), getMonth(date) + 1, 0), EndOfDayMs)

getFilterRange(viewMode, viewDate) ==
  IF viewMode = "day"
    THEN [start |-> getStartOfDay(viewDate), end |-> getEndOfDay(viewDate)]
  ELSE IF viewMode = "week"
    THEN [start |-> getStartOfWeek(viewDate), end |-> getEndOfWeek(viewDate)]
  ELSE [start |-> getStartOfMonth(viewDate), end |-> getEndOfMonth(viewDate)]

\* d >= start && d <= end
InRange(d, start, end) == DateLeq(start, d) /\ DateLeq(d, end)

\* x put behind the last element of sorted whose date is not earlier
InsertByDateDesc(sorted, x) ==
  LET k == Cardinality({i \in 1..Len(sorted) : DateCmp(x.date, sorted[i].date) <= 0})
  IN  SubSeq(sorted, 1, k) \o <<x>> \o SubSeq(sorted, k + 1, Len(sorted))

RECURSIVE SortByDateDesc(_)
\* .sort((a, b) => getTime(b.date) - getTime(a.date)): descending and stable
SortByDateDesc(list) ==
  IF Len(list) = 0 THEN <<>>
  ELSE InsertByDateDesc(SortByDateDesc(SubSeq(list, 1, Len(list) - 1)), list[Len(list)])

filterData(data, start, end) ==
  SortByDateDesc(SelectSeq(data, LAMBDA item : InRange(item.date, start, end)))

\* map.set(key, {date: key, value: 0}) on a Map kept as the sequence of its
\* entries: a key that is present keeps its place and gets the new value
BucketSet(map, key) ==
  IF MapHas(map, key)
    THEN [map EXCEPT ![MapIndex(map, key)] = [key |-> key, val |-> [date |-> key, value |-> 0]]]
    ELSE Append(map, [key |-> key, val |-> [date |-> key, value |-> 0]])

RECURSIVE InitBuckets(_, _, _)
\* while (curr <= end) { map.set(...); curr.setDate(curr.getDate() + 1) }
\* (Len(map) >= 0 holds of every map: it has the map built turn by turn)
InitBuckets(map, curr, end) ==
  IF Len(map) >= 0 /\ DateLeq(curr, end)
    THEN InitBuckets(BucketSet(map, toLocaleDateString(curr)),
                     setDate(curr, getDate(curr) + 1), end)
    ELSE map

\* entry.value = val
BucketAdd_Overwrite(map, k, val) == [map EXCEPT ![k].val.value = val]

\* entry.value += val
BucketAdd(map, k, val) == [map EXCEPT ![k].val.value = @ + val]

\* the body of data.forEach; item[valueKey] is the selected value
AggregateStep(map, item, dateStr, valueKey, start, end) ==
  IF InRange(item.date, start, end) /\ MapHas(map, dateStr)
    THEN BucketAdd(map, MapIndex(map, dateStr), item[valueKey])
    ELSE map

RECURSIVE AggregateItems(_, _, _, _, _, _)
AggregateItems(map, data, i, valueKey, start, end) ==
  IF i > Len(data) THEN map
  ELSE AggregateItems(
         AggregateStep(map, data[i], toLocaleDateString(data[i].date), valueKey,
                       start, end),
         data, i + 1, valueKey, start, end)

\* Array.from(map.values())
BucketValues(map) == [i \in 1..Len(map) |-> map[i].val]

\* no bucket is made before the entries are added
getAggregatedData_Unseeded(data, valueKey, start, end, viewMode) ==
  IF viewMode = "day" THEN <<>>
  ELSE BucketValues(AggregateItems(<<>>, data, 1, valueKey, start, end))

getAggregatedData(data, valueKey, start, end, viewMode) ==
  IF viewMode = "day" THEN <<>>
  ELSE BucketValues(AggregateItems(InitBuckets(<<>>, start, end), data, 1,
                                   valueKey, start, end))

AppNext ==
  \/ Initialize
  \/ \E t \in Times, c \in CalorieInputs : FoodModule_handleSaveEntry(t, c)
  \/ \E t \in Times, f \in ExerciseInputs : ExerciseModule_handleSaveEntry(t, f)
  \/ \E t \in Times, w \in WeightInputs : handleSaveWeight(t, w)
  \/ \E t \in Times : handleSaveMeasurement(t)
  \/ \E id \in AllIds : handleDeleteFood(id)
  \/ \E id \in AllIds : handleDeleteExercise(id)
  \/ \E id \in AllIds : handleDeleteWeight(id)
  \/ \E id \in AllIds : handleDeleteMeasurement(id)
  \/ \E p \in ProfileForms : handleUpdateProfile(p)
  \/ handlePrevDay
  \/ \E t \in Times : handleNextDay(t)
  \/ \E d \in 1..31 : handlePickDay(d)

\* no update is queued, nothing was issued
NoUpdates == <<>>

NothingIssued == [appended |-> 0, lists |-> [c \in Collections |-> <<>>]]

SubIdle ==
  /\ call = NoCall
  /\ updates = NoUpdates
  /\ expected = NothingIssued
  /\ renderedAt = ConstructionTime

Init == AppInit /\ SubIdle

Next == AppNext

Spec == Init /\ [][Next]_vars

\* ------------------------------------------------------------------------
\* Properties of the application (specification Spec)
\* ------------------------------------------------------------------------

\* every DailyStats record of the current render
StatsRecords == {dashboardStats} \cup {statsHistory[i] : i \in 1..Len(statsHistory)}

RECURSIVE CaloriesOn(_, _, _)
\* the calories of the food entries, from index k, of local date dateStr
CaloriesOn(fs, k, dateStr) ==
  IF k > Len(fs) THEN 0
  ELSE (IF toLocaleDateString(fs[k].date) = dateStr THEN fs[k].calories ELSE 0)
         + CaloriesOn(fs, k + 1, dateStr)

RECURSIVE BurnedOn(_, _, _)
\* the caloriesBurned of the exercise entries, from index k, of local date dateStr
BurnedOn(es, k, dateStr) ==
  IF k > Len(es) THEN 0
  ELSE (IF toLocaleDateString(es[k].date) = dateStr THEN es[k].caloriesBurned ELSE 0)
         + BurnedOn(es, k + 1, dateStr)

\* C2: after any sequence of appends and deletes, every DailyStats record
\* the app derives (the dashboard record and each record of the stats
\* history) has net = intake - (bmr + burned), intake being the sum of the
\* calories of that day's food entries and burned the sum of caloriesBurned
\* of that day's exercise entries.
C2_NetIdentity ==
  \A r \in StatsRecords :
    /\ r.net = r.intake - (r.bmr + r.burned)
    /\ r.intake = CaloriesOn(foods, 1, toLocaleDateString(r.date))
    /\ r.burned = BurnedOn(exercises, 1, toLocaleDateString(r.date))

C2_Witness ==
  /\ Len(foods) > 0
  /\ Len(exercises) > 0
  /\ dashboardStats.intake = 0
  /\ \E i \in 1..Len(statsHistory) :
       /\ statsHistory[i].intake > 0
       /\ statsHistory[i].burned > 0
       /\ statsHistory[i].net < 0

\* the weight entries dated at or before endOfDay
Applicable(ws, endOfDay) == {i \in 1..Len(ws) : DateLeq(ws[i].date, endOfDay)}

\* the entries of latest date among the applicable ones
LatestApplicable(ws, endOfDay) ==
  {i \in Applicable(ws, endOfDay) :
     \A j \in Applicable(ws, endOfDay) : DateLeq(ws[j].date, ws[i].date)}

\* the entries of earliest date
Earliest(ws) == {i \in 1..Len(ws) : \A j \in 1..Len(ws) : DateLeq(ws[i].date, ws[j].date)}

Max(S) == CHOOSE x \in S : \A y \in S : y <= x

Min(S) == CHOOSE x \in S : \A y \in S : x <= y

Perms(n) == {f \in [1..n -> 1..n] : \A i, j \in 1..n : f[i] = f[j] => i = j}

Permuted(ws, f) == [i \in 1..Len(ws) |-> ws[f[i]]]

\* f keeps the relative order of the entries of equal date
KeepsEqualDated(ws, f) ==
  \A i, j \in 1..Len(ws) : (i < j /\ ws[f[i]].date = ws[f[j]].date) => f[i] < f[j]

\* C3 as stated: getWeightForDate(d) is the weight of the entry of latest
\* date among those dated at or before 23:59:59.999 of day d, of the
\* earliest-dated entry when every entry is later, and 70 when there is no
\* entry; the result does not depend on the insertion order of the
\* collection.
C3_Original ==
  \A d \in Times :
    /\ Len(weights) = 0 => getWeightForDate(weights, d) = Fx(70)
    /\ Applicable(weights, setHours(d, EndOfDayMs)) # {} =>
         \E i \in LatestApplicable(weights, setHours(d, EndOfDayMs)) :
           getWeightForDate(weights, d) = weights[i].weight
    /\ (Len(weights) > 0 /\ Applicable(weights, setHours(d, EndOfDayMs)) = {}) =>
         \E i \in Earliest(weights) : getWeightForDate(weights, d) = weights[i].weight
    /\ \A f \in Perms(Len(weights)) :
         getWeightForDate(Permuted(weights, f), d) = getWeightForDate(weights, d)

\* C3, amended: getWeightForDate(d) is the weight of the last inserted of
\* the entries of latest date among those dated at or before 23:59:59.999
\* of day d, of the first inserted of the earliest-dated entries when every
\* entry is later, and 70 when there is no entry; the result is the same
\* for every insertion order that keeps the relative order of the entries
\* of equal date.
C3_WeightForDate ==
  \A d \in Times :
    /\ Len(weights) = 0 => getWeightForDate(weights, d) = Fx(70)
    /\ Applicable(weights, setHours(d, EndOfDayMs)) # {} =>
         getWeightForDate(weights, d) =
           weights[Max(LatestApplicable(weights, setHours(d, EndOfDayMs)))].weight
    /\ (Len(weights) > 0 /\ Applicable(weights, setHours(d, EndOfDayMs)) = {}) =>
         getWeightForDate(weights, d) = weights[Min(Earliest(weights))].weight
    /\ \A f \in Perms(Len(weights)) :
         KeepsEqualDated(weights, f) =>
           getWeightForDate(Permuted(weights, f), d) = getWeightForDate(weights, d)

C3_Witness ==
  /\ Len(weights) = 3
  /\ \E i, j \in 1..Len(weights) :
       i < j /\ DateCmp(weights[i].date, weights[j].date) > 0
  /\ \E i, j \in 1..Len(weights) :
       /\ i < j
       /\ weights[i].date = weights[j].date
       /\ weights[i].weight # weights[j].weight
       /\ getWeightForDate(weights, dashboardDate) = weights[j].weight

\* C4 as stated: the DailyStats record derived for a date d has
\* bmr = calculateBMR(active profile, weight resolved for d), for the
\* dashboard record of the selected date and for each record of the stats
\* history.
C4_Original ==
  \A r \in StatsRecords :
    r.bmr = calculateBMR(currentProfile, getWeightForDate(weights, r.date))

\* the days without food entry and without exercise entry
EmptyDay(d) ==
  /\ \A i \in 1..Len(foods) : foods[i].date.day # d.day
  /\ \A i \in 1..Len(exercises) : exercises[i].date.day # d.day

\* the DailyStats derived for date d
StatsFor(d) ==
  dashboardStatsOf(profiles, currentProfileId, foods, exercises, weights, d)

\* C5: for every date without food entry and without exercise entry of the
\* active profile, the DailyStats derived for it has intake = 0,
\* burned = 0 and net = -bmr.
C5_EmptyDay ==
  /\ \A d \in Times :
       EmptyDay(d) =>
         /\ StatsFor(d).intake = 0
         /\ StatsFor(d).burned = 0
         /\ StatsFor(d).net = 0 - StatsFor(d).bmr
  /\ EmptyDay(dashboardDate) =>
       /\ dashboardStats.intake = 0
       /\ dashboardStats.burned = 0
       /\ dashboardStats.net = 0 - dashboardStats.bmr

C5_Witness ==
  /\ Len(foods) > 0
  /\ Len(exercises) > 0
  /\ EmptyDay(dashboardDate)
  /\ dashboardStats.intake = 0
  /\ dashboardStats.net = 0 - dashboardStats.bmr
  /\ dashboardStats.bmr > 0

\* C9: for each of the four entry stores, the delete of an id that no
\* entry of the collection has leaves the contents and the order of the
\* collection unchanged, and the handler completes.
C9_DeleteAbsent == (lastOp.op = "delete" /\ lastOp.absent) => lastOp.unchanged

C9_Witness ==
  /\ lastOp.op = "delete"
  /\ lastOp.absent
  /\ lastOp.unchanged
  /\ Len(foods) > 0
  /\ Len(exercises) > 0
  /\ Len(weights) > 0

PairwiseDistinctIds(list) ==
  \A i, j \in 1..Len(list) : list[i].id = list[j].id => i = j

\* C10 as stated: after any sequence of appends and deletes the entries of
\* one collection have pairwise distinct ids, also when two entries are
\* appended at the same millisecond clock reading, and a delete by id
\* removes at most one entry.
C10_Original ==
  /\ PairwiseDistinctIds(foods)
  /\ PairwiseDistinctIds(exercises)
  /\ PairwiseDistinctIds(weights)
  /\ PairwiseDistinctIds(measurements)
  /\ lastOp.op = "delete" => lastOp.removed <= 1

\* ------------------------------------------------------------------------
\* The pure functions, applied to drawn inputs: call holds the arguments
\* of one call and, once the function has been applied, its result
\* ------------------------------------------------------------------------

\* the view dates: the days around a turn of the year and around a leap day,
\* each at the start and at the end of the day
ViewDayStarts == {DaysFromCivil(2023, 12, 27), DaysFromCivil(2024, 2, 25)}

ViewDays == {d0 + k : d0 \in ViewDayStarts, k \in 0..(NumViewDays - 1)}

ViewDates == {MkDate(d, ms) : d \in ViewDays, ms \in {StartOfDayMs, EndOfDayMs}}

ViewModes == {"day", "week", "month"}

\* the dates of the entries handed to the aggregation
DataTimes ==
  { MkDate(DaysFromCivil(2023, 12, 30), EndOfDayMs),
    MkDate(DaysFromCivil(2023, 12, 31), StartOfDayMs),
    MkDate(DaysFromCivil(2024, 1, 1), StartOfDayMs),
    MkDate(DaysFromCivil(2024, 2, 29), EndOfDayMs),
    MkDate(DaysFromCivil(2024, 3, 1), StartOfDayMs) }

DataItems == [date : DataTimes, calories : {Fx(300), Fx(200)}]

DataLists == UNION {[1..n -> DataItems] : n \in 0..MaxData}

BMRProfiles ==
  [id : {DEFAULT_PROFILE_ID}, gender : {"male", "female"}, age : {0, 30, 41},
   heightCm : {0, 165, 180}]

BMRWeights == {Fx(60), 6050, Fx(70), Fx(75)}

Pending == <<>>

BMRCalls == [fn : {"calculateBMR"}, profile : BMRProfiles, weight : BMRWeights,
             done : {FALSE}, result : {Pending}]

WeekCalls == [fn : {"week"}, date : ViewDates, done : {FALSE}, result : {Pending}]

AggregateCalls ==
  [fn : {"getAggregatedData"}, viewMode : ViewModes, viewDate : ViewDates,
   data : DataLists, done : {FALSE}, result : {Pending}]

FnInit ==
  /\ AppInit
  /\ storage = EmptyStorage
  /\ call \in BMRCalls \cup WeekCalls \cup AggregateCalls
  /\ updates = NoUpdates
  /\ expected = NothingIssued
  /\ renderedAt = ConstructionTime

Done(result) == [call EXCEPT !.done = TRUE, !.result = result]

callCalculateBMR ==
  /\ call.fn = "calculateBMR"
  /\ ~call.done
  /\ call' = Done(calculateBMR(call.profile, call.weight))
  /\ UNCHANGED <<appVars, updates, expected, renderedAt>>

callWeek ==
  /\ call.fn = "week"
  /\ ~call.done
  /\ call' = Done([start |-> getStartOfWeek(call.date), end |-> getEndOfWeek(call.date)])
  /\ UNCHANGED <<appVars, updates, expected, renderedAt>>

\* the chart data of one render of StatsModule
AggregateResult(data, range, viewMode) ==
  [start |-> range.start, end |-> range.end,
   filtered |-> filterData(data, range.start, range.end),
   chartData |-> getAggregatedData(data, "calories", range.start, range.end, viewMode)]

callAggregate ==
  /\ call.fn = "getAggregatedData"
  /\ ~call.done
  /\ call' = Done(AggregateResult(call.data, getFilterRange(call.viewMode, call.viewDate),
                                  call.viewMode))
  /\ UNCHANGED <<appVars, updates, expected, renderedAt>>

FnNext == callCalculateBMR \/ callWeek \/ callAggregate

SpecFn == FnInit /\ [][FnNext]_vars

\* ------------------------------------------------------------------------
\* Properties of the pure functions (specification SpecFn)
\* ------------------------------------------------------------------------

BMRCalled == call.fn = "calculateBMR" /\ call.done

\* C1: for every profile and every weight w, calculateBMR returns
\* 10*w + 6.25*heightCm - 5*age + 5 for a male profile and
\* 10*w + 6.25*heightCm - 5*age - 161 otherwise (in hundredths of a kcal);
\* female, 30 years, 165 cm, 60 kg gives 1320.25.
C1_BMRFormula ==
  BMRCalled =>
    /\ call.profile.gender = "male" =>
         call.result = 10 * call.weight + 625 * call.profile.heightCm
                         - 500 * call.profile.age + 500
    /\ call.profile.gender # "male" =>
         call.result = 10 * call.weight + 625 * call.profile.heightCm
                         - 500 * call.profile.age - 16100
    /\ (call.profile.gender = "female" /\ call.profile.age = 30
          /\ call.profile.heightCm = 165 /\ call.weight = 6000) =>
         call.result = 132025

C1_Witness ==
  /\ BMRCalled
  /\ call.profile.gender = "female"
  /\ call.profile.age = 30
  /\ call.profile.heightCm = 165
  /\ call.weight = 6000
  /\ call.result = 132025

AggregateCalled == call.fn = "getAggregatedData" /\ call.done

\* the number of calendar days from start to end, both included
RangeDays(r) == (r.end.day - r.start.day) + 1

\* the local calendar date of the i-th day of the range
RangeDate(r, i) == DateString(CivilFromDays(r.start.day + i - 1))

\* the entries of data whose local calendar date is dateStr
MatchingEntries(data, dateStr) ==
  {k \in 1..Len(data) : toLocaleDateString(data[k].date) = dateStr}

\* one bucket per calendar day of the range, in chronological order, and a
\* day without matching entry has the value 0
DayBuckets(r, data) ==
  /\ Len(r.chartData) = RangeDays(r)
  /\ \A i \in 1..Len(r.chartData) :
       /\ r.chartData[i].date = RangeDate(r, i)
       /\ MatchingEntries(data, RangeDate(r, i)) = {} => r.chartData[i].value = 0

\* C6 as stated: whatever the view mode (day, week or month), the result of
\* the aggregation over [start, end] has exactly (end-start).days + 1
\* buckets, one per calendar day, in chronological order, a day without
\* matching entry being present with value 0.
C6_Original == AggregateCalled => DayBuckets(call.result, call.data)

\* C6, amended: in week and month mode the result of the aggregation over
\* [start, end] has exactly (end-start).days + 1 buckets, one per calendar
\* day, in chronological order, a day without matching entry being present
\* with value 0; in day mode the result is empty.
C6_Buckets ==
  AggregateCalled =>
    IF call.viewMode = "day"
      THEN call.result.chartData = <<>>
      ELSE DayBuckets(call.result, call.data)

C6_Witness ==
  /\ AggregateCalled
  /\ call.viewMode = "week"
  /\ Len(call.result.chartData) = 7
  /\ getMonth(call.result.start) # getMonth(call.result.end)
  /\ \E i, j \in 1..Len(call.result.chartData) :
       /\ call.result.chartData[i].value = 0
       /\ call.result.chartData[j].value > 0

RECURSIVE SumOfValues(_, _)
SumOfValues(buckets, i) ==
  IF i > Len(buckets) THEN 0 ELSE buckets[i].value + SumOfValues(buckets, i + 1)

RECURSIVE SumOfMatching(_, _, _)
\* the sum of calories over the entries of data, from index k, dated dateStr
SumOfMatching(data, k, dateStr) ==
  IF k > Len(data) THEN 0
  ELSE (IF toLocaleDateString(data[k].date) = dateStr THEN data[k].calories ELSE 0)
         + SumOfMatching(data, k + 1, dateStr)

\* C7: in week and month aggregation the value of each bucket is the sum of
\* the selected value over exactly the entries whose local calendar date is
\* the bucket's day; entries outside [start, end] contribute to no bucket,
\* so the bucket values add up to the sum over the entries inside the range.
C7_BucketSums ==
  (AggregateCalled /\ call.viewMode # "day") =>
    /\ \A i \in 1..Len(call.result.chartData) :
         call.result.chartData[i].value =
           SumOfMatching(call.data, 1, call.result.chartData[i].date)
    /\ \A k \in 1..Len(call.data) :
         ~InRange(call.data[k].date, call.result.start, call.result.end) =>
           \A i \in 1..Len(call.result.chartData) :
             call.result.chartData[i].date # toLocaleDateString(call.data[k].date)
    /\ SumOfValues(call.result.chartData, 1) = SumCalories(call.result.filtered, 1)

C7_Witness ==
  /\ AggregateCalled
  /\ call.viewMode = "month"
  /\ Len(call.data) = 2
  /\ Len(call.result.filtered) = 1
  /\ \E i \in 1..Len(call.result.chartData) :
       call.result.chartData[i].value = call.result.filtered[1].calories

WeekCalled == call.fn = "week" /\ call.done

\* C8: getStartOfWeek(d) is 00:00:00.000 of the latest Sunday on or before d
\* and getEndOfWeek(d) is 23:59:59.999 of the Saturday six days later, so
\* the week range contains d and covers 7 calendar days from a Sunday.
C8_WeekRange ==
  WeekCalled =>
    /\ getDay(call.result.start) = 0
    /\ call.result.start.ms = 0
    /\ call.result.start.day <= call.date.day
    /\ call.date.day - call.result.start.day <= 6
    /\ getDay(call.result.end) = 6
    /\ call.result.end.day = call.result.start.day + 6
    /\ call.result.end.ms = EndOfDayMs
    /\ InRange(call.date, call.result.start, call.result.end)

C8_Witness ==
  /\ WeekCalled
  /\ getDay(call.date) = 5
  /\ getDate(call.date) = 1
  /\ getMonth(call.result.start) # getMonth(call.date)
  /\ getDay(call.result.start) = 0

\* ------------------------------------------------------------------------
\* The setters of the entry collections and the render that applies them.
\* A setter call is queued; the next render applies the queued updates in
\* the order of the calls.  onAddEntry, onAddWeight and onAddMeasurement
\* are closures of the last render: they hold the collection of that
\* render, which is the state until the next render.
\* ------------------------------------------------------------------------

\* setter calls that may wait for one render
MaxQueued == 2

\* append calls of one run
MaxAppends == 3

\* the state after the mount effects of a first run
FirstRunStorage ==
  saveEffects(
    saveToStorage(
      saveToStorage(
        saveToStorage(EmptyStorage, GlobalKey("vs_profiles"), <<INITIAL_PROFILE>>),
        GlobalKey("vs_active_id"), DEFAULT_PROFILE_ID),
      GlobalKey("vs_app_version"), APP_VERSION),
    DEFAULT_PROFILE_ID, <<INITIAL_PROFILE>>, <<>>, <<>>, <<>>, <<>>)

Mounted ==
  /\ isInitialized = TRUE
  /\ profiles = <<INITIAL_PROFILE>>
  /\ currentProfileId = DEFAULT_PROFILE_ID
  /\ foods = <<>>
  /\ exercises = <<>>
  /\ weights = <<>>
  /\ measurements = <<>>
  /\ dashboardDate = ConstructionTime
  /\ statsMemo =
       renderStatsMemo([array |-> <<>>, todayBMR |-> todayBMROf(<<>>, "", <<>>)],
                       TRUE, <<INITIAL_PROFILE>>, DEFAULT_PROFILE_ID, <<>>, <<>>,
                       <<>>, ConstructionTime)
  /\ storage = FirstRunStorage
  /\ lastOp = NoOp

\* the collections of the last render, by name
collections ==
  [c \in Collections |->
     CASE c = "foods" -> foods
       [] c = "exercises" -> exercises
       [] c = "weights" -> weights
       [] c = "measurements" -> measurements]

\* the n-th clock reading of a run whose clock advances between two readings
Reading(n) == MkDate(ConstructionTime.day, n)

\* the entry a save handler hands to the append callback of collection c
NewEntry(c, t) ==
  CASE c = "foods" -> [id |-> DateNowString(t), date |-> t, calories |-> Fx(300)]
    [] c = "exercises" ->
         [id |-> DateNowString(t), date |-> t, durationMinutes |-> 30,
          caloriesBurned |-> Fx(200), steps |-> 0]
    [] c = "weights" -> [id |-> DateNowString(t), date |-> t, weight |-> Fx(60)]
    [] c = "measurements" ->
         [id |-> DateNowString(t), date |-> t, measurements |-> MeasureForm]

\* setX(value) and setX(prev => prev.filter(e => e.id !== id))
SetTo(c, value) == [store |-> c, kind |-> "set", value |-> value, id |-> <<>>]

FilterOut(c, id) == [store |-> c, kind |-> "filter", value |-> <<>>, id |-> id]

ApplyUpdate(state, u) ==
  IF u.kind = "set"
    THEN [state EXCEPT ![u.store] = u.value]
    ELSE [state EXCEPT ![u.store] = WithoutId(@, u.id)]

RECURSIVE ApplyUpdates(_, _, _)
ApplyUpdates(state, us, i) ==
  IF i > Len(us) THEN state ELSE ApplyUpdates(ApplyUpdate(state, us[i]), us, i + 1)

\* onAddEntry = (f) => setFoods([...foods, f]), and its three siblings
onAdd(c) ==
  /\ isInitialized
  /\ Len(updates) < MaxQueued
  /\ expected.appended < MaxAppends
  /\ updates' = Append(updates,
                       SetTo(c, Append(collections[c],
                                       NewEntry(c, Reading(expected.appended + 1)))))
  /\ expected' = [appended |-> expected.appended + 1,
                  lists |-> [expected.lists EXCEPT
                               ![c] = Append(@, NewEntry(c, Reading(expected.appended + 1)))]]
  /\ UNCHANGED <<appVars, call, renderedAt>>

\* handleDeleteFood = (id) => setFoods(prev => prev.filter(f => f.id !== id)),
\* and its three siblings
handleDelete(c, id) ==
  /\ isInitialized
  /\ Len(updates) < MaxQueued
  /\ updates' = Append(updates, FilterOut(c, id))
  /\ expected' = [expected EXCEPT !.lists[c] = WithoutId(@, id)]
  /\ UNCHANGED <<appVars, call, renderedAt>>

\* the render after the queued setter calls, with its save effects
RenderTo(new) ==
  /\ foods' = new["foods"]
  /\ exercises' = new["exercises"]
  /\ weights' = new["weights"]
  /\ measurements' = new["measurements"]
  /\ storage' = saveEffects(storage, currentProfileId, profiles, foods', exercises',
                            weights', measurements')
  /\ statsMemo' = renderStatsMemo(statsMemo, TRUE, profiles, currentProfileId,
                                  foods', exercises', weights', dashboardDate)

Render ==
  /\ Len(updates) > 0
  /\ RenderTo(ApplyUpdates(collections, updates, 1))
  /\ updates' = NoUpdates
  /\ lastOp' = NoOp
  /\ UNCHANGED <<isInitialized, profiles, currentProfileId, dashboardDate, call,
                 expected, renderedAt>>

QueueInit == Mounted /\ SubIdle

QueueNext ==
  \/ \E c \in Collections : onAdd(c)
  \/ \E c \in Collections, n \in 1..MaxAppends :
       n <= expected.appended /\ handleDelete(c, DateNowString(Reading(n)))
  \/ Render

SpecQueue == QueueInit /\ [][QueueNext]_vars

\* C11 as stated: after any sequence of appends and deletes, two appends
\* issued before the view renders again included, each entry collection
\* lists exactly the appended and not deleted entries in insertion order.
C11_Original ==
  Len(updates) = 0 => \A c \in Collections : collections[c] = expected.lists[c]

\* ------------------------------------------------------------------------
\* ExerciseModule with the quick step sync.  entries is todayExercises of
\* the last render of App: the exercises dated on the day App rendered.
\* The clock does not run backwards between two readings of a run.
\* ------------------------------------------------------------------------

\* exercise entries of one run
MaxStepEntries == 3

\* parseInt(dailyStepTotal): <<n>> for a text that starts with the number n,
\* <<>> (NaN) for any other text
NotANumber == <<>>

IsNumber(parsed) == Len(parsed) = 1

StepTotals == {NotANumber, <<-5>>, <<0>>, <<12>>, <<113>>, <<214>>, <<5000>>}

RECURSIVE SumSteps(_, _)
\* entries.reduce((acc, curr) => acc + (curr.steps || 0), 0)
SumSteps(entries, i) ==
  IF i > Len(entries) THEN 0 ELSE entries[i].steps + SumSteps(entries, i + 1)

\* todayExercises of the last render
todayExercises == OnDate(exercises, toLocaleDateString(renderedAt))

stepsTodaySoFar == SumSteps(todayExercises, 1)

\* Math.round(delta * 0.04) for delta > 0, as a fixed-point number of kcal
CaloriesOfSteps(delta) == Fx((delta * 4 + 50) \div 100)

\* Math.ceil(delta / 100)
MinutesOfSteps(delta) == (delta + 99) \div 100

\* no pedometer total was submitted on any day
NoTotals == [d \in Days |-> 0]

\* lastOp of a step sync: the total submitted at reading t, the steps
\* stored before for the day of t, the steps the view listed, and what
\* happened to the collection
StepsOp(total, t, before, after) ==
  [op |-> "steps", total |-> total,
   logged |-> SumSteps(OnDate(before, toLocaleDateString(t)), 1),
   listed |-> stepsTodaySoFar,
   unchanged |-> after = before, added |-> Len(after) - Len(before)]

\* the larger of the totals submitted on the day of t
WithTotal(totals, total, t) ==
  IF IsNumber(total) /\ total[1] > totals[t.day]
    THEN [totals EXCEPT ![t.day] = total[1]]
    ELSE totals

\* the entry stores the pedometer total, not the difference
StepsEntry_Total(t, delta) ==
  [id |-> DateNowString(t), date |-> t, durationMinutes |-> MinutesOfSteps(delta),
   caloriesBurned |-> CaloriesOfSteps(delta), steps |-> delta + stepsTodaySoFar]

\* the steps entry handed to onAddEntry
StepsEntry(t, delta) ==
  [id |-> DateNowString(t), date |-> t, durationMinutes |-> MinutesOfSteps(delta),
   caloriesBurned |-> CaloriesOfSteps(delta), steps |-> delta]

\* what handleSaveSteps leaves in the collection
\* (!currentTotal: NaN or 0; then delta <= 0)
AfterSaveSteps(currentTotal, delta, t) ==
  IF ~IsNumber(currentTotal) \/ currentTotal[1] = 0 \/ delta <= 0
    THEN exercises
    ELSE Append(exercises, StepsEntry(t, delta))

\* the render of App at reading t
renderAt(t) ==
  /\ renderedAt' = t
  /\ statsMemo' = renderStatsMemo(statsMemo, exercises' # exercises, profiles,
                                  currentProfileId, foods, exercises', weights,
                                  dashboardDate)

handleSaveSteps(total, t) ==
  /\ isInitialized
  /\ DateLeq(renderedAt, t)
  /\ Len(exercises) < MaxStepEntries
  /\ exercises' = AfterSaveSteps(total,
                                 IF IsNumber(total) THEN total[1] - stepsTodaySoFar ELSE 0,
                                 t)
  /\ storage' = saveToStorage(storage, CollectionKey("exercises", currentProfileId),
                              exercises')
  /\ lastOp' = StepsOp(total, t, exercises, exercises')
  /\ expected' = WithTotal(expected, total, t)
  /\ IF exercises' # exercises THEN renderAt(t)
     ELSE UNCHANGED <<renderedAt, statsMemo>>
  /\ UNCHANGED <<isInitialized, profiles, currentProfileId, foods, weights, measurements,
                 dashboardDate, call, updates>>

\* App renders for another reason (setCurrentView)
AppRender(t) ==
  /\ isInitialized
  /\ DateLeq(renderedAt, t)
  /\ t # renderedAt
  /\ UNCHANGED <<isInitialized, profiles, currentProfileId, foods, exercises, weights,
                 measurements, dashboardDate, storage, call, updates, expected>>
  /\ renderAt(t)
  /\ lastOp' = NoOp

StepsInit ==
  /\ Mounted
  /\ call = NoCall
  /\ updates = NoUpdates
  /\ expected = NoTotals
  /\ renderedAt = ConstructionTime

StepsNext ==
  \/ \E total \in StepTotals, t \in Times : handleSaveSteps(total, t)
  \/ \E t \in Times : AppRender(t)

SpecSteps == StepsInit /\ [][StepsNext]_vars

\* the entry appended last
LastExercise == exercises[Len(exercises)]

\* C12 as stated: a step sync with total T, when the steps logged for today
\* sum to L, creates no entry and leaves the collection unchanged if T <= L,
\* and appends exactly one entry with steps = T - L,
\* caloriesBurned = round((T - L) * 0.04) and
\* durationMinutes = ceil((T - L) / 100) if T > L; the same total submitted
\* twice in a row creates one entry.
C12_Original ==
  (lastOp.op = "steps" /\ IsNumber(lastOp.total)) =>
    /\ lastOp.total[1] <= lastOp.logged => lastOp.unchanged
    /\ lastOp.total[1] > lastOp.logged =>
         /\ lastOp.added = 1
         /\ LastExercise.steps = lastOp.total[1] - lastOp.logged
         /\ \E k \in 0..LastExercise.steps :
              /\ LastExercise.caloriesBurned = 100 * k
              /\ 100 * k - 50 <= 4 * LastExercise.steps
              /\ 4 * LastExercise.steps < 100 * k + 50
         /\ 100 * (LastExercise.durationMinutes - 1) < LastExercise.steps
         /\ LastExercise.steps <= 100 * LastExercise.durationMinutes

\* every submission and every entry of the run is of day d
OneDay(d) ==
  /\ \A other \in Days \ {d} : expected[other] = 0
  /\ \A i \in 1..Len(exercises) : exercises[i].date.day = d

RECURSIVE StepsOfDay(_, _)
\* the steps stored over the entries of day d, from index i
StepsOfDay(d, i) ==
  IF i > Len(exercises) THEN 0
  ELSE (IF exercises[i].date.day = d THEN exercises[i].steps ELSE 0) + StepsOfDay(d, i + 1)

MaxProfiles == 2

\* entries appended in one run
MaxOwned == 1

\* `user_${Date.now()}` for the n-th clock reading
UserIdTable == <<"user_1", "user_2", "user_3", "user_4", "user_5", "user_6", "user_7">>

UserId(t) == UserIdTable[t.ms]

\* the clock readings of one run, shared by the appended entries, the
\* added profiles and the profile switches
MaxReadings == MaxOwned + MaxProfiles

KnownProfileIds == {DEFAULT_PROFILE_ID} \cup {UserIdTable[n] : n \in 1..MaxReadings}

ProfileStorageKeys ==
  {GlobalKey(k) : k \in {"vs_profiles", "vs_active_id", "vs_app_version"}}
    \cup {CollectionKey(c, pid) : c \in Collections, pid \in KnownProfileIds}

\* the storage after the mount effects of a first run
MountedStorage ==
  [k \in ProfileStorageKeys |-> IF k \in StorageKeys THEN FirstRunStorage[k] ELSE NoItem]

\* the sets of keys whose writes one commit may see refused: none, or
\* every key (the quota is exhausted)
FailingSets == {{}, ProfileStorageKeys}

\* whether an exception of setItem leaves saveToStorage: its catch clause
\* logs the exception and returns
saveToStorageThrows_Uncaught(key, failing) == key \in failing

saveToStorageThrows(key, failing) == FALSE

\* saveToStorage(key, data) with the writes of `failing` refused
saveToStorageUnless(st, key, data, failing) ==
  IF key \in failing THEN st ELSE saveToStorage(st, key, data)

\* the save effects of the collections in `changed`, for profile id pid
saveCollections(st, pid, cols, changed, failing) ==
  [k \in DOMAIN st |->
     IF k \notin failing /\ \E c \in changed : k = CollectionKey(c, pid)
       THEN Item(cols[k[1]])
       ELSE st[k]]

\* the save effect of the profile list
saveProfiles(st, ps, failing) ==
  IF Len(ps) > 0
    THEN saveToStorageUnless(st, GlobalKey("vs_profiles"), ps, failing)
    ELSE st

CollectionKeys(pid, changed) == {CollectionKey(c, pid) : c \in changed}

\* lastOp of a commit that wrote the keys `written`: whether a write was
\* refused, whether an exception left saveToStorage, and the profiles, the
\* active id and the collections in memory when the writes began
SaveOp(written, failing, ps, pid, cols) ==
  [op |-> "save",
   failed |-> written \cap failing # {},
   escaped |-> \E k \in written : saveToStorageThrows(k, failing),
   memory |-> [profiles |-> ps, currentProfileId |-> pid, collections |-> cols]]

\* expected: the clock readings taken, the entries appended, and for every
\* appended entry its id with the profile that was active
NothingOwned == [clock |-> 0, appended |-> 0, owner |-> {}]

setCollections(cols) ==
  /\ foods' = cols["foods"]
  /\ exercises' = cols["exercises"]
  /\ weights' = cols["weights"]
  /\ measurements' = cols["measurements"]

\* the four setters the load effect calls for profile id pid
loadEffect(st, pid) ==
  <<SetTo("foods", load(st, "foods", pid)),
    SetTo("exercises", load(st, "exercises", pid)),
    SetTo("weights", load(st, "weights", pid)),
    SetTo("measurements", load(st, "measurements", pid))>>

\* the effects of the commit in which currentProfileId became pid
switchEffects(st, pid, failing) ==
  saveCollections(
    saveToStorageUnless(st, GlobalKey("vs_active_id"), pid, failing),
    pid, collections, Collections, failing)

\* a save handler of a view: the append callback, the render, the save
\* effect of the collection
appendEntry(c, failing) ==
  /\ isInitialized
  /\ Len(updates) = 0
  /\ expected.appended < MaxOwned
  /\ expected.clock < MaxReadings
  /\ LET entry == NewEntry(c, Reading(expected.clock + 1))
         cols  == [collections EXCEPT ![c] = Append(@, entry)]
     IN  /\ setCollections(cols)
         /\ storage' = saveCollections(storage, currentProfileId, cols, {c}, failing)
         /\ expected' = [clock |-> expected.clock + 1,
                         appended |-> expected.appended + 1,
                         owner |-> expected.owner \cup {<<entry.id, currentProfileId>>}]
         /\ lastOp' = SaveOp(CollectionKeys(currentProfileId, {c}), failing,
                             profiles, currentProfileId, cols)
  /\ statsMemo' = renderStatsMemo(statsMemo, TRUE, profiles, currentProfileId,
                                  foods', exercises', weights', dashboardDate)
  /\ UNCHANGED <<isInitialized, profiles, currentProfileId, dashboardDate, call,
                 updates, renderedAt>>

\* a delete handler, the render, the save effect of the collection
deleteEntry(c, id, failing) ==
  /\ isInitialized
  /\ Len(updates) = 0
  /\ LET cols == [collections EXCEPT ![c] = WithoutId(@, id)]
     IN  /\ setCollections(cols)
         /\ storage' = saveCollections(storage, currentProfileId, cols, {c}, failing)
         /\ lastOp' = SaveOp(CollectionKeys(currentProfileId, {c}), failing,
                             profiles, currentProfileId, cols)
  /\ statsMemo' = renderStatsMemo(statsMemo, TRUE, profiles, currentProfileId,
                                  foods', exercises', weights', dashboardDate)
  /\ UNCHANGED <<isInitialized, profiles, currentProfileId, dashboardDate, call,
                 updates, expected, renderedAt>>

NewProfile(newId) == [id |-> newId, gender |-> "female", age |-> 25, heightCm |-> 160]

\* handleAddProfile, the render, and the effects of the commit
handleAddProfile(failing) ==
  /\ isInitialized
  /\ Len(updates) = 0
  /\ Len(profiles) < MaxProfiles
  /\ expected.clock < MaxReadings
  /\ LET newId == UserId(Reading(expected.clock + 1))
         ps    == Append(profiles, NewProfile(newId))
     IN  /\ profiles' = ps
         /\ currentProfileId' = newId
         /\ updates' = loadEffect(
                         saveToStorageUnless(storage, GlobalKey("vs_active_id"),
                                             newId, failing),
                         newId)
         /\ storage' = saveProfiles(switchEffects(storage, newId, failing), ps, failing)
         /\ lastOp' = SaveOp(CollectionKeys(newId, Collections)
                               \cup {GlobalKey("vs_active_id"), GlobalKey("vs_profiles")},
                             failing, ps, newId, collections)
  /\ expected' = [expected EXCEPT !.clock = @ + 1]
  /\ statsMemo' = renderStatsMemo(statsMemo, TRUE, profiles', currentProfileId',
                                  foods, exercises, weights, dashboardDate)
  /\ UNCHANGED <<isInitialized, foods, exercises, weights, measurements,
                 dashboardDate, call, renderedAt>>

\* handleSwitchProfile(id), the render, and the effects of the commit (none
\* when id is the active profile)
handleSwitchProfile(id, failing) ==
  /\ isInitialized
  /\ Len(updates) = 0
  /\ expected.clock < MaxReadings
  /\ \E i \in 1..Len(profiles) : profiles[i].id = id
  /\ currentProfileId' = id
  /\ dashboardDate' = Reading(expected.clock + 1)
  /\ IF id = currentProfileId
       THEN /\ UNCHANGED <<updates, storage>>
            /\ lastOp' = NoOp
       ELSE /\ updates' = loadEffect(
                            saveToStorageUnless(storage, GlobalKey("vs_active_id"),
                                                id, failing),
                            id)
            /\ storage' = switchEffects(storage, id, failing)
            /\ lastOp' = SaveOp(CollectionKeys(id, Collections)
                                  \cup {GlobalKey("vs_active_id")},
                                failing, profiles, id, collections)
  /\ expected' = [expected EXCEPT !.clock = @ + 1]
  /\ statsMemo' = renderStatsMemo(statsMemo, TRUE, profiles, currentProfileId',
                                  foods, exercises, weights, dashboardDate')
  /\ UNCHANGED <<isInitialized, profiles, foods, exercises, weights, measurements,
                 call, renderedAt>>

\* the render that applies the setters of the load effect, and the save
\* effects of the four collections
renderLoaded(failing) ==
  /\ Len(updates) > 0
  /\ LET cols == ApplyUpdates(collections, updates, 1)
     IN  /\ setCollections(cols)
         /\ storage' = saveCollections(storage, currentProfileId, cols, Collections,
                                       failing)
         /\ lastOp' = SaveOp(CollectionKeys(currentProfileId, Collections), failing,
                             profiles, currentProfileId, cols)
  /\ updates' = NoUpdates
  /\ statsMemo' = renderStatsMemo(statsMemo, TRUE, profiles, currentProfileId,
                                  foods', exercises', weights', dashboardDate)
  /\ UNCHANGED <<isInitialized, profiles, currentProfileId, dashboardDate, call,
                 expected, renderedAt>>

\* the views the user saves and deletes entries in
EntryViews == {"foods", "weights"}

ProfilesInit ==
  /\ isInitialized = TRUE
  /\ profiles = <<INITIAL_PROFILE>>
  /\ currentProfileId = DEFAULT_PROFILE_ID
  /\ foods = <<>>
  /\ exercises = <<>>
  /\ weights = <<>>
  /\ measurements = <<>>
  /\ dashboardDate = ConstructionTime
  /\ statsMemo =
       renderStatsMemo([array |-> <<>>, todayBMR |-> todayBMROf(<<>>, "", <<>>)],
                       TRUE, <<INITIAL_PROFILE>>, DEFAULT_PROFILE_ID, <<>>, <<>>,
                       <<>>, ConstructionTime)
  /\ storage = MountedStorage
  /\ lastOp = NoOp
  /\ call = NoCall
  /\ updates = NoUpdates
  /\ expected = NothingOwned
  /\ renderedAt = ConstructionTime

ProfilesNext ==
  \/ \E c \in EntryViews, failing \in FailingSets : appendEntry(c, failing)
  \/ \E c \in EntryViews, n \in 1..MaxReadings, failing \in FailingSets :
       deleteEntry(c, DateNowString(Reading(n)), failing)
  \/ \E failing \in FailingSets : handleAddProfile(failing)
  \/ \E id \in KnownProfileIds, failing \in FailingSets : handleSwitchProfile(id, failing)
  \/ \E failing \in FailingSets : renderLoaded(failing)

SpecProfiles == ProfilesInit /\ [][ProfilesNext]_vars

\* the collections in memory
Memory ==
  [profiles |-> profiles, currentProfileId |-> currentProfileId,
   collections |-> collections]

StoredUnder(c, pid) == load(storage, c, pid)

\* C15: in every state the collection stored under a key of profile P holds
\* only entries that were appended while P was the active profile
C15_Original ==
  \A pid \in KnownProfileIds, c \in Collections :
    \A i \in 1..Len(StoredUnder(c, pid)) :
      <<StoredUnder(c, pid)[i].id, pid>> \in expected.owner

\* ------------------------------------------------------------------------
\* Backup: handleExport, handleImport and confirmReset of ProfileSettings.
\* A key is the sequence of its characters, a stored value a string.  A
\* JSON text is what JSON.parse makes of it: whether it parses, the kind
\* of value it denotes and, for an object, its members in the order of the
\* text (of two members with one name the later one counts; the members of
\* an array are named by their indices).  The handlers stop at
\* window.location.reload().
\* ------------------------------------------------------------------------

VsPrefix == <<"v", "s", "_">>

\* key.startsWith(prefix)
startsWith(key, prefix) ==
  Len(key) >= Len(prefix) /\ SubSeq(key, 1, Len(prefix)) = prefix

\* two keys of the application and one of another namespace, in the order
\* of localStorage.key(i)
StorageOrder == <<<<"v", "s", "_", "a">>, <<"v", "s", "_", "b">>, <<"l", "_", "v", "s", "_">>>>

BackupKeys == {StorageOrder[i] : i \in 1..Len(StorageOrder)}

\* 'getfit_backup_meta'
MetaKey == <<"m", "e", "t", "a">>

StoredValues == {"[]", "[1]"}

BackupStorages == [BackupKeys -> {NoItem} \cup {Item(v) : v \in StoredValues}]

NoMeta == [version |-> "", timestamp |-> MkDate(0, 0), platform |-> "", entryCount |-> 0]

JString(s) == [type |-> "string", string |-> s, meta |-> NoMeta]

JNumber == [type |-> "number", string |-> "", meta |-> NoMeta]

JObject(m) == [type |-> "object", string |-> "", meta |-> m]

Member(key, value) == [key |-> key, value |-> value]

\* JSON.stringify(data, null, 2) of an object with the members data
JSONstringify(data) == [parses |-> TRUE, kind |-> "object", members |-> data]

NotJSON == [parses |-> FALSE, kind |-> "none", members |-> <<>>]

JSONText(kind, members) == [parses |-> TRUE, kind |-> kind, members |-> members]

\* Object.keys(backupData)
ObjectKeys(backupData) ==
  {backupData.members[i].key : i \in 1..Len(backupData.members)}

\* backupData[key], for a key of Object.keys(backupData)
Get(backupData, key) ==
  LET last == CHOOSE i \in 1..Len(backupData.members) :
                /\ backupData.members[i].key = key
                /\ \A j \in (i + 1)..Len(backupData.members) :
                     backupData.members[j].key # key
  IN  backupData.members[last].value

\* data[key] = localStorage.getItem(key)
ExportedValue_Parsed(st, key) == JNumber

ExportedValue(st, key) == JString(ItemValue(st[key]))

\* the loop of handleExport over localStorage.key(i)
RECURSIVE GatherAppData(_, _)
GatherAppData(st, i) ==
  IF i = 0 THEN <<>>
  ELSE IF HasItem(st[StorageOrder[i]]) /\ startsWith(StorageOrder[i], VsPrefix)
         THEN Append(GatherAppData(st, i - 1),
                     Member(StorageOrder[i], ExportedValue(st, StorageOrder[i])))
         ELSE GatherAppData(st, i - 1)

BackupMeta(data, t) ==
  JObject([version |-> APP_VERSION, timestamp |-> t, platform |-> "web",
           entryCount |-> Len(data)])

\* the text handleExport hands to the download, at clock reading t
ExportText(st, t) ==
  JSONstringify(Append(GatherAppData(st, Len(StorageOrder)),
                       Member(MetaKey, BackupMeta(GatherAppData(st, Len(StorageOrder)), t))))

\* keysToRemove of handleImport
keysToRemove_None(st) == {}

keysToRemove(st) == {k \in DOMAIN st : HasItem(st[k]) /\ startsWith(k, VsPrefix)}

\* key.startsWith('vs_') && typeof backupData[key] === 'string'
Restored(backupData) ==
  {k \in ObjectKeys(backupData) :
     startsWith(k, VsPrefix) /\ Get(backupData, k).type = "string"}

AfterRemove(st) == [k \in DOMAIN st |-> IF k \in keysToRemove(st) THEN NoItem ELSE st[k]]

AfterImport(st, backupData) ==
  [k \in DOMAIN st |->
     IF k \in Restored(backupData)
       THEN Item(Get(backupData, k).string)
       ELSE AfterRemove(st)[k]]

\* expected: the last exported text and the storage it was taken from
NothingExported ==
  [exported |-> FALSE, text |-> NotJSON, storage |-> [k \in BackupKeys |-> NoItem]]

\* the files the user may pick for the import, besides the last export
BackupFiles ==
  {NotJSON,
   JSONText("null", <<>>),
   JSONText("number", <<>>),
   JSONText("array", <<Member(<<"0">>, JString("[1]"))>>),
   JSONText("object", <<>>),
   JSONText("object", <<Member(StorageOrder[3], JString("[1]"))>>),
   JSONText("object", <<Member(StorageOrder[1], JNumber)>>),
   JSONText("object", <<Member(StorageOrder[1], JString("[1]"))>>),
   JSONText("object", <<Member(StorageOrder[2], JString("[]")),
                        Member(StorageOrder[3], JString("[]")),
                        Member(MetaKey, JObject(NoMeta))>>),
   JSONText("object", <<Member(StorageOrder[1], JString("[]")),
                        Member(StorageOrder[2], JString("[1]")),
                        Member(StorageOrder[1], JNumber)>>)}

PickableFiles == BackupFiles \cup (IF expected.exported THEN {expected.text} ELSE {})

\* the state of App the three handlers leave alone
backupFrame ==
  <<isInitialized, profiles, currentProfileId, foods, exercises, weights,
    measurements, dashboardDate, statsMemo, lastOp, updates, renderedAt>>

handleExport(t) ==
  /\ expected' = [exported |-> TRUE, text |-> ExportText(storage, t), storage |-> storage]
  /\ call' = [fn |-> "export"]
  /\ UNCHANGED <<backupFrame, storage>>

\* reader.onload of handleImport for the picked file, the user answering
\* window.confirm with `confirmed`.  JSON.parse throws on a text that does
\* not parse, backupData['getfit_backup_meta'] throws on null; the catch
\* clause reports both.
ImportThrows_Never(file) == FALSE

ImportThrows(file) == ~file.parses \/ file.kind = "null"

ImportCall(file, confirmed, before, imported) ==
  [fn |-> "import", file |-> file, confirmed |-> confirmed, before |-> before,
   importCount |-> imported]

handleImport(file, confirmed) ==
  /\ IF ImportThrows(file) \/ ~confirmed
       THEN /\ storage' = storage
            /\ call' = ImportCall(file, confirmed, storage, 0)
       ELSE /\ storage' = AfterImport(storage, file)
            /\ call' = ImportCall(file, confirmed, storage, Cardinality(Restored(file)))
  /\ UNCHANGED <<backupFrame, expected>>

\* confirmReset with the confirmation code typed correctly
confirmReset ==
  /\ storage' = [k \in DOMAIN storage |-> NoItem]
  /\ call' = [fn |-> "reset"]
  /\ UNCHANGED <<backupFrame, expected>>

BackupInit ==
  /\ isInitialized = TRUE
  /\ profiles = <<INITIAL_PROFILE>>
  /\ currentProfileId = DEFAULT_PROFILE_ID
  /\ foods = <<>>
  /\ exercises = <<>>
  /\ weights = <<>>
  /\ measurements = <<>>
  /\ dashboardDate = ConstructionTime
  /\ statsMemo =
       renderStatsMemo([array |-> <<>>, todayBMR |-> todayBMROf(<<>>, "", <<>>)],
                       TRUE, <<INITIAL_PROFILE>>, DEFAULT_PROFILE_ID, <<>>, <<>>,
                       <<>>, ConstructionTime)
  /\ storage \in BackupStorages
  /\ lastOp = NoOp
  /\ call = NoCall
  /\ updates = NoUpdates
  /\ expected = NothingExported
  /\ renderedAt = ConstructionTime

BackupNext ==
  \/ handleExport(ConstructionTime)
  \/ \E file \in PickableFiles, confirmed \in BOOLEAN : handleImport(file, confirmed)
  \/ confirmReset

SpecBackup == BackupInit /\ [][BackupNext]_vars

Imported == call.fn = "import"

\* the vs_-prefixed keys of a parsed file whose value is a string
VsStringKeys(file) ==
  {k \in ObjectKeys(file) : startsWith(k, VsPrefix) /\ Get(file, k).type = "string"}

\* C16: an import of a file that parses and has no vs_-prefixed key with a
\* string value imports 0 items and leaves every stored key and value as
\* it was, whether or not the user confirms
C16_Original ==
  (Imported /\ call.file.parses /\ VsStringKeys(call.file) = {}) =>
    /\ call.importCount = 0
    /\ storage = call.before

\* what a key holds after an import of file into the storage before
ImportedValue(file, before, k) ==
  IF startsWith(k, VsPrefix)
    THEN IF k \in VsStringKeys(file) THEN Item(Get(file, k).string) ELSE NoItem
    ELSE before[k]

\* C17: after a confirmed import that restored at least one item, the
\* vs_-prefixed keys in storage are the vs_-prefixed string-valued keys of
\* the file with the file's values, and every other key is as before
C17_ImportExact ==
  (Imported /\ call.confirmed /\ call.importCount >= 1) =>
    \A k \in DOMAIN storage : storage[k] = ImportedValue(call.file, call.before, k)

C17_Witness ==
  /\ Imported
  /\ call.confirmed
  /\ call.importCount = 1
  /\ \E k \in BackupKeys :
       /\ startsWith(k, VsPrefix)
       /\ HasItem(call.before[k])
       /\ storage[k] = NoItem
  /\ \E k \in BackupKeys :
       /\ ~startsWith(k, VsPrefix)
       /\ k \in ObjectKeys(call.file)
       /\ HasItem(storage[k])
       /\ storage[k] # Item(Get(call.file, k).string)

\* the vs_-prefixed keys a storage holds
VsKeysOf(st) == {k \in DOMAIN st : HasItem(st[k]) /\ startsWith(k, VsPrefix)}

MembersNamed(text, key) ==
  {i \in 1..Len(text.members) : text.members[i].key = key}

\* the exported text has one member per vs_-prefixed key of the storage,
\* holding its stored string, and one metadata object
ExportedDocument(text, st) ==
  /\ text.parses
  /\ text.kind = "object"
  /\ ObjectKeys(text) = VsKeysOf(st) \cup {MetaKey}
  /\ Len(text.members) = Cardinality(VsKeysOf(st)) + 1
  /\ \A k \in VsKeysOf(st) : Get(text, k) = JString(ItemValue(st[k]))
  /\ Cardinality(MembersNamed(text, MetaKey)) = 1
  /\ Get(text, MetaKey).type = "object"
  /\ Get(text, MetaKey).meta.version = APP_VERSION
  /\ Get(text, MetaKey).meta.platform = "web"
  /\ Get(text, MetaKey).meta.timestamp = ConstructionTime
  /\ Get(text, MetaKey).meta.entryCount = Cardinality(VsKeysOf(st))

RoundTrip ==
  /\ Imported
  /\ call.confirmed
  /\ expected.exported
  /\ call.file = expected.text

\* C18: the exported document holds every vs_-prefixed key of the storage
\* and one metadata object {version, timestamp, platform, entryCount}, and
\* a confirmed import of it gives every vs_-prefixed key the value it had
\* at the export and leaves the other keys alone
C18_RoundTrip ==
  /\ expected.exported => ExportedDocument(expected.text, expected.storage)
  /\ RoundTrip =>
       \A k \in DOMAIN storage :
         storage[k] = IF startsWith(k, VsPrefix) THEN expected.storage[k]
                      ELSE call.before[k]

C18_Witness ==
  /\ RoundTrip
  /\ call.importCount = 2
  /\ \E k \in BackupKeys : startsWith(k, VsPrefix) /\ call.before[k] # storage[k]
  /\ \E k \in BackupKeys : ~startsWith(k, VsPrefix) /\ HasItem(storage[k])

\* ------------------------------------------------------------------------
\* analyzeFood of the estimation service and handleAnalyze of the food
\* form.  null and undefined are <<>>, a string s is <<s>>.  The
\* estimation API either throws or answers with a response whose text is
\* undefined or a string; JSON.parse is modelled on the texts of
\* ResponseTexts.
\* ------------------------------------------------------------------------

Nothing == <<>>

Str(s) == <<s>>

\* !x for x null, undefined or a string
Falsy(x) == x = Nothing \/ x = Str("")

\* imageBase64: null, or the part of the data URL after the comma
ImageInputs == {Nothing, Str(""), Str("/9j/4AAQ")}

\* userDescription
DescriptionInputs == {Nothing, Str(""), Str("apple pie")}

\* response.text: undefined, empty, prose, and four JSON texts
ResponseTexts ==
  {Nothing, Str(""), Str("I cannot identify this food."), Str("{}"), Str("null"),
   Str("{\"foodName\":\"Apple\",\"calories\":95}"),
   Str("{\"foodName\":\"Apple\",\"calories\":95,\"macros\":{},\"confidence\":\"high\"}")}

\* generateContent: it throws, or it resolves to a response with a text
ApiOutcomes == {[ok |-> FALSE, text |-> Nothing]} \cup {[ok |-> TRUE, text |-> t] : t \in ResponseTexts}

Macros(p, c, f) == [protein |-> p, carbs |-> c, fat |-> f]

\* a value JSON.parse returns: null, or an object with the members it has
JNull == [isNull |-> TRUE, foodName |-> Nothing, calories |-> Nothing, macros |-> Nothing, confidence |-> Nothing]

JFood(name, kcal, macros, confidence) == [isNull |-> FALSE, foodName |-> name, calories |-> kcal, macros |-> macros, confidence |-> confidence]

\* JSON.parse(jsonText): whether it throws, and the value if it does not
JSONparse(jsonText) ==
  CASE jsonText = "{}" -> [throws |-> FALSE, value |-> JFood(Nothing, Nothing, Nothing, Nothing)]
    [] jsonText = "null" -> [throws |-> FALSE, value |-> JNull]
    [] jsonText = "{\"foodName\":\"Apple\",\"calories\":95}" ->
         [throws |-> FALSE, value |-> JFood(Str("Apple"), <<95>>, Nothing, Nothing)]
    [] jsonText = "{\"foodName\":\"Apple\",\"calories\":95,\"macros\":{},\"confidence\":\"high\"}" ->
         [throws |-> FALSE,
          value |-> JFood(Str("Apple"), <<95>>, <<Macros(0, 0, 0)>>, Str("high"))]
    [] OTHER -> [throws |-> TRUE, value |-> JNull]

\* the outcome of analyzeFood: the error it throws or the value it
\* returns, and the requests it sent to the estimation API
Thrown(message, requests) == [threw |-> TRUE, error |-> message, value |-> JNull, requests |-> requests]

Returned(value, requests) == [threw |-> FALSE, error |-> "", value |-> value, requests |-> requests]

\* !imageBase64 && !userDescription
MissingInput_Never(imageBase64, userDescription) == FALSE

MissingInput(imageBase64, userDescription) ==
  Falsy(imageBase64) /\ Falsy(userDescription)

\* the value analyzeFood returns when JSON.parse throws
ParseFallback(userDescription) ==
  JFood(IF Falsy(userDescription) THEN Str("Unknown Food") ELSE userDescription,
        <<0>>, <<Macros(0, 0, 0)>>, Str("low"))

\* response.text || "{}"
JsonTextOf(text) == IF Falsy(text) THEN "{}" ELSE text[1]

ParsedOrFallback(jsonText, userDescription) ==
  IF JSONparse(jsonText).throws
    THEN ParseFallback(userDescription)
    ELSE JSONparse(jsonText).value

analyzeFood(imageBase64, userDescription, api) ==
  IF MissingInput(imageBase64, userDescription)
    THEN Thrown("Please provide an image or a description.", 0)
    ELSE IF ~api.ok
           THEN Thrown("Failed to analyze food. Please try again.", 1)
           ELSE Returned(ParsedOrFallback(JsonTextOf(api.text), userDescription), 1)

\* the food form: description, calories, hasAnalyzed, and the alert shown
FormState(description, calories, hasAnalyzed, alert) ==
  [description |-> description, calories |-> calories, hasAnalyzed |-> hasAnalyzed,
   alert |-> alert, early |-> FALSE]

AnalysisAlert == "Failed to analyze food. You can enter details manually."

\* the try block of handleAnalyze on the outcome of analyzeFood: a thrown
\* error, a null result (result.foodName throws) and a result without
\* calories or macros (result.calories.toString() and result.macros.protein
\* throw after setDescription was called) end in the catch clause
FormAfter(textData, outcome) ==
  IF outcome.threw \/ outcome.value.isNull
    THEN FormState(Str(textData), Str(""), FALSE, AnalysisAlert)
    ELSE IF outcome.value.calories = Nothing \/ outcome.value.macros = Nothing
           THEN FormState(outcome.value.foodName, Str(""), FALSE, AnalysisAlert)
           ELSE FormState(outcome.value.foodName, outcome.value.calories, TRUE, "")

\* imgData.split(',')[1] of the data URLs the form holds
Base64Of(imgData) == IF imgData = Nothing THEN Nothing ELSE Str("/9j/4AAQ")

\* handleAnalyze(imgData, textData) of the food form, whose description
\* field holds textData
handleAnalyzeForm(imgData, textData, api) ==
  IF imgData = Nothing /\ textData = ""
    THEN [FormState(Str(textData), Str(""), FALSE, "") EXCEPT !.early = TRUE]
    ELSE FormAfter(textData, analyzeFood(Base64Of(imgData), Str(textData), api))

\* previewUrl, and the description field of the form
FormImages == {Nothing, Str("data:image/jpeg;base64,/9j/4AAQ")}

FormTexts == {"", "apple pie"}

ServiceCalls ==
  {[fn |-> "analyzeFood", image |-> i, description |-> d, api |-> a, done |-> FALSE, result |-> Pending] :
     i \in ImageInputs, d \in DescriptionInputs, a \in ApiOutcomes}

FormCalls ==
  {[fn |-> "handleAnalyze", image |-> i, description |-> Str(d), api |-> a, done |-> FALSE, result |-> Pending] :
     i \in FormImages, d \in FormTexts, a \in ApiOutcomes}

AnalyzeInit ==
  /\ Mounted
  /\ call \in ServiceCalls \cup FormCalls
  /\ updates = NoUpdates
  /\ expected = NothingIssued
  /\ renderedAt = ConstructionTime

callAnalyzeFood ==
  /\ call.fn = "analyzeFood"
  /\ ~call.done
  /\ call' = Done(analyzeFood(call.image, call.description, call.api))
  /\ UNCHANGED <<appVars, updates, expected, renderedAt>>

handleAnalyze ==
  /\ call.fn = "handleAnalyze"
  /\ ~call.done
  /\ call' = Done(handleAnalyzeForm(call.image, call.description[1], call.api))
  /\ UNCHANGED <<appVars, updates, expected, renderedAt>>

AnalyzeNext == callAnalyzeFood \/ handleAnalyze

SpecAnalyze == AnalyzeInit /\ [][AnalyzeNext]_vars

Analyzed == call.fn = "analyzeFood" /\ call.done

FormAnalyzed == call.fn = "handleAnalyze" /\ call.done

\* C19: analyzeFood called with neither an image nor a description throws
\* the invalid-input error and has sent no request to the estimation API
C19_InvalidInput ==
  (Analyzed /\ Falsy(call.image) /\ Falsy(call.description)) =>
    /\ call.result.threw
    /\ call.result.error = "Please provide an image or a description."
    /\ call.result.requests = 0

C19_Witness ==
  /\ Analyzed
  /\ call.image = Nothing
  /\ call.description = Str("")
  /\ call.api.ok
  /\ call.result.threw

\* whether the text of a response is an estimate with name, calories,
\* macros and confidence
IsEstimateText(text) ==
  text = Str("{\"foodName\":\"Apple\",\"calories\":95,\"macros\":{},\"confidence\":\"high\"}")

Unparseable == call.api.ok /\ ~IsEstimateText(call.api.text)

\* C20: when the API call succeeds and its response cannot be parsed into
\* an estimate, analyzeFood returns confidence "low", calories 0 and the
\* user's description as foodName, and the food form takes the result as
\* an estimate and shows no error
C20_Original ==
  /\ (Analyzed /\ Unparseable /\ ~MissingInput(call.image, call.description)) =>
       /\ ~call.result.threw
       /\ call.result.value.confidence = Str("low")
       /\ call.result.value.calories = <<0>>
       /\ call.result.value.foodName = call.description
  /\ (FormAnalyzed /\ Unparseable /\ ~call.result.early) =>
       /\ call.result.hasAnalyzed
       /\ call.result.alert = ""

\* ------------------------------------------------------------------------
\* The estimation forms of FoodModule and ExerciseModule and the calls
\* they keep in flight.  call holds what the user interface shows: the
\* view App renders, the state of the two modules and the last alert;
\* updates holds the estimation calls that have not resolved; expected
\* counts the calls started and the mounts of each module.  A module that
\* App stops rendering is unmounted: its state is dropped, and the setters
\* a late response calls on it do nothing.
\* ------------------------------------------------------------------------

\* estimation calls started in one run
MaxCalls == 2

\* the state of a mounted module; an empty calories field is <<>>, a number
\* put into it <<n>>
FoodFormInit ==
  [isAdding |-> FALSE, analyzing |-> FALSE, description |-> Str(""),
   calories |-> Nothing, macros |-> Str(""), previewUrl |-> Nothing,
   hasAnalyzed |-> FALSE]

ExerciseFormInit ==
  [isAdding |-> FALSE, isEstimating |-> FALSE, activityName |-> "", duration |-> "",
   manualCalories |-> Nothing]

\* parseInt(duration) of the durations typed
DurationTexts == {"", "30"}

parseIntDuration(duration) == IF duration = "30" THEN 30 ELSE 0

\* description.length > 2 in the render of the open food form; the
\* expression throws when description is undefined
LongDescription(description) == description \notin {Nothing, Str("")}

RenderThrows(ui) ==
  /\ ui.view = "food"
  /\ ui.food.isAdding
  /\ ui.food.previewUrl = Nothing
  /\ ui.food.description = Nothing

\* the render after a handler: an exception of the render unmounts App
Rendered(ui) == IF RenderThrows(ui) THEN [ui EXCEPT !.view = "crashed"] ELSE ui

\* a call in flight: the module and the mount that started it, and its
\* arguments
FoodCall(mount, image, text) ==
  [form |-> "food", mount |-> mount, image |-> image, text |-> text, duration |-> 0]

ExerciseCall(mount, activityName, durationMinutes) ==
  [form |-> "exercise", mount |-> mount, image |-> Nothing, text |-> Str(activityName),
   duration |-> durationMinutes]

NoCalls == [started |-> 0, food |-> 1, exercise |-> 1]

InFlight(form) == {i \in 1..Len(updates) : updates[i].form = form}

Without(seq, i) == SubSeq(seq, 1, i - 1) \o SubSeq(seq, i + 1, Len(seq))

\* lastOp of a step of the forms: the user interface and the collections
\* before it and, for a call that resolved, whether the module that
\* started the call was still mounted, and the outcome
FormOp(op, mounted, detail) ==
  [op |-> op, before |-> call, collections |-> collections, mounted |-> mounted,
   detail |-> detail]

NoDetail == [threw |-> FALSE, error |-> "", value |-> JNull, requests |-> 0]

\* the frame of the steps that touch the user interface only
formFrame ==
  <<isInitialized, profiles, currentProfileId, foods, exercises, weights,
    measurements, dashboardDate, statsMemo, storage, renderedAt>>

uiStep(op, ui) ==
  /\ call.view # "crashed"
  /\ call' = Rendered(ui)
  /\ lastOp' = FormOp(op, TRUE, NoDetail)
  /\ UNCHANGED <<formFrame, updates, expected>>

\* onChangeView(view): App renders another view; the module of the view
\* left is unmounted and the next mount starts from the initial state
setCurrentView(view) ==
  /\ view # call.view
  /\ expected.food + expected.exercise < MaxCalls + 2
  /\ call.view # "crashed"
  /\ call' = [call EXCEPT !.view = view,
                          !.food = IF call.view = "food" THEN FoodFormInit ELSE @,
                          !.exercise = IF call.view = "exercise" THEN ExerciseFormInit ELSE @]
  /\ expected' = [expected EXCEPT
                    !.food = IF call.view = "food" THEN @ + 1 ELSE @,
                    !.exercise = IF call.view = "exercise" THEN @ + 1 ELSE @]
  /\ lastOp' = FormOp("view", TRUE, NoDetail)
  /\ UNCHANGED <<formFrame, updates>>

\* the + button of the food view
openFoodForm ==
  /\ call.view = "food" /\ ~call.food.isAdding
  /\ uiStep("open", [call EXCEPT !.food.isAdding = TRUE])

\* resetForm of FoodModule (the close button of the form)
FoodModule_resetForm ==
  /\ call.view = "food" /\ call.food.isAdding
  /\ uiStep("reset", [call EXCEPT !.food = [FoodFormInit EXCEPT !.analyzing = call.food.analyzing]])

\* the textarea of the food form
setDescription(text) ==
  /\ call.view = "food" /\ call.food.isAdding
  /\ call.food.description # Str(text)
  /\ uiStep("type", [call EXCEPT !.food.description = Str(text)])

\* the X button over the photo
removePhoto ==
  /\ call.view = "food" /\ call.food.isAdding
  /\ call.food.previewUrl # Nothing
  /\ uiStep("removePhoto", [call EXCEPT !.food.previewUrl = Nothing])

\* handleAnalyze(imgData, textData) up to its await: setAnalyzing(true) and
\* the call of analyzeFood
startAnalyze(op, ui, imgData, textData) ==
  /\ expected.started < MaxCalls
  /\ call.view = "food" /\ call.food.isAdding
  /\ call' = Rendered([ui EXCEPT !.food.analyzing = TRUE])
  /\ updates' = Append(updates, FoodCall(expected.food, Base64Of(imgData), textData))
  /\ expected' = [expected EXCEPT !.started = @ + 1]
  /\ lastOp' = FormOp(op, TRUE, NoDetail)
  /\ UNCHANGED formFrame

\* the estimate button under the description
clickEstimateText ==
  /\ call.food.previewUrl = Nothing
  /\ LongDescription(call.food.description)
  /\ ~call.food.hasAnalyzed
  /\ ~call.food.analyzing
  /\ startAnalyze("estimate", call, Nothing, call.food.description)

\* the refine button under a photo
clickRefine ==
  /\ call.food.previewUrl # Nothing
  /\ ~call.food.analyzing
  /\ call.food.description # Nothing
  /\ startAnalyze("refine", call, call.food.previewUrl, call.food.description)

\* handleFileChange for a photo picked with the camera or gallery button:
\* compressImage resolves and handleAnalyze starts, or compressImage
\* rejects and the catch clause reports it
handleFileChange(compressed) ==
  /\ call.food.previewUrl = Nothing
  /\ ~call.food.analyzing
  /\ call.food.description # Nothing
  /\ IF compressed
       THEN startAnalyze("photo",
                         [call EXCEPT !.food.previewUrl = Str("data:image/jpeg;base64,/9j/4AAQ")],
                         Str("data:image/jpeg;base64,/9j/4AAQ"), call.food.description)
       ELSE /\ call.view = "food" /\ call.food.isAdding
            /\ uiStep("photo", [call EXCEPT !.alert = "Error processing image. Please try a smaller image or enter details manually."])

\* the setters handleAnalyze calls on the value analyzeFood returned, up
\* to the first expression that throws
FoodAfterResult(form, value) ==
  IF value.isNull THEN form
  ELSE IF value.calories = Nothing THEN [form EXCEPT !.description = value.foodName]
  ELSE IF value.macros = Nothing
         THEN [form EXCEPT !.description = value.foodName, !.calories = value.calories]
         ELSE [form EXCEPT !.description = value.foodName, !.calories = value.calories,
                           !.macros = Str("0"), !.hasAnalyzed = TRUE]

AnalysisFailed(outcome) ==
  \/ outcome.threw
  \/ outcome.value.isNull
  \/ outcome.value.calories = Nothing
  \/ outcome.value.macros = Nothing

\* the form after handleAnalyze has run to its end on the outcome (the
\* finally clause calls setAnalyzing(false))
FoodAfterAnalyze_NoFinally(form, outcome) ==
  IF outcome.threw THEN form ELSE FoodAfterResult(form, outcome.value)

FoodAfterAnalyze(form, outcome) ==
  [(IF outcome.threw THEN form ELSE FoodAfterResult(form, outcome.value))
     EXCEPT !.analyzing = FALSE]

\* the i-th call in flight resolves with the outcome api of the
\* estimation API: handleAnalyze continues after its await
resolveAnalyze(i, api) ==
  /\ i \in InFlight("food")
  /\ LET outcome == analyzeFood(updates[i].image, updates[i].text, api)
         mounted == /\ call.view = "food"
                    /\ updates[i].mount = expected.food
         shown   == IF AnalysisFailed(outcome) THEN AnalysisAlert ELSE call.alert
     IN  /\ call' = IF mounted
                      THEN Rendered([call EXCEPT !.food = FoodAfterAnalyze(@, outcome),
                                                 !.alert = shown])
                      ELSE [call EXCEPT !.alert = shown]
         /\ lastOp' = FormOp("resolveAnalyze", mounted, outcome)
  /\ updates' = Without(updates, i)
  /\ UNCHANGED <<formFrame, expected>>

\* handleSaveEntry of FoodModule with the calories an analysis filled in,
\* the render and the save effect of App
saveMeal ==
  /\ call.view = "food" /\ call.food.isAdding
  /\ LongDescription(call.food.description)
  /\ call.food.calories # Nothing
  /\ ~call.food.analyzing
  /\ foods' = Append(foods, [id |-> DateNowString(Reading(Len(foods) + 1)),
                             date |-> Reading(Len(foods) + 1),
                             calories |-> Fx(call.food.calories[1])])
  /\ storage' = saveToStorage(storage, CollectionKey("foods", currentProfileId), foods')
  /\ statsMemo' = renderStatsMemo(statsMemo, TRUE, profiles, currentProfileId,
                                  foods', exercises, weights, dashboardDate)
  /\ call' = [call EXCEPT !.food = FoodFormInit]
  /\ lastOp' = FormOp("save", TRUE, NoDetail)
  /\ UNCHANGED <<isInitialized, profiles, currentProfileId, exercises, weights,
                 measurements, dashboardDate, renderedAt, updates, expected>>

\* the + button of the exercise view, and the fields of its form
openExerciseForm ==
  /\ call.view = "exercise" /\ ~call.exercise.isAdding
  /\ uiStep("open", [call EXCEPT !.exercise.isAdding = TRUE])

ExerciseModule_resetForm ==
  /\ call.view = "exercise" /\ call.exercise.isAdding
  /\ uiStep("reset", [call EXCEPT !.exercise =
                        [ExerciseFormInit EXCEPT !.isEstimating = call.exercise.isEstimating]])

fillExerciseForm(activityName, duration) ==
  /\ call.view = "exercise" /\ call.exercise.isAdding
  /\ <<activityName, duration>> # <<call.exercise.activityName, call.exercise.duration>>
  /\ uiStep("type", [call EXCEPT !.exercise.activityName = activityName,
                                 !.exercise.duration = duration])

\* handleEstimate up to its await
handleEstimate ==
  /\ expected.started < MaxCalls
  /\ call.view = "exercise" /\ call.exercise.isAdding
  /\ call.exercise.activityName # "" /\ call.exercise.duration # ""
  /\ ~call.exercise.isEstimating
  /\ call' = [call EXCEPT !.exercise.isEstimating = TRUE]
  /\ updates' = Append(updates, ExerciseCall(expected.exercise, call.exercise.activityName,
                                             parseIntDuration(call.exercise.duration)))
  /\ expected' = [expected EXCEPT !.started = @ + 1]
  /\ lastOp' = FormOp("estimate", TRUE, NoDetail)
  /\ UNCHANGED formFrame

\* the texts of the responses to an exercise estimate, and JSON.parse of them
ExerciseTexts ==
  {Nothing, Str("about 150 kcal"), Str("{}"), Str("null"), Str("{\"calories\":150}"),
   Str("{\"calories\":\"150\"}")}

ExerciseOutcomes ==
  {[ok |-> FALSE, text |-> Nothing]} \cup {[ok |-> TRUE, text |-> t] : t \in ExerciseTexts}

\* a value estimateExercise returns: null, or an object with the calories
\* member it has, a number or a string
JCalories(isNull, kind, calories) == [isNull |-> isNull, kind |-> kind, calories |-> calories]

JSONparseExercise(jsonText) ==
  CASE jsonText = "{}" -> [throws |-> FALSE, value |-> JCalories(FALSE, "undefined", 0)]
    [] jsonText = "null" -> [throws |-> FALSE, value |-> JCalories(TRUE, "undefined", 0)]
    [] jsonText = "{\"calories\":150}" -> [throws |-> FALSE, value |-> JCalories(FALSE, "number", 150)]
    [] jsonText = "{\"calories\":\"150\"}" -> [throws |-> FALSE, value |-> JCalories(FALSE, "string", 150)]
    [] OTHER -> [throws |-> TRUE, value |-> JCalories(TRUE, "undefined", 0)]

\* { calories: Math.round(durationMinutes * 5) }
ExerciseFallback(durationMinutes) == JCalories(FALSE, "number", durationMinutes * 5)

\* estimateExercise: the value its promise resolves to (it never rejects:
\* the catch clause covers the request and JSON.parse)
estimateExercise(activityName, durationMinutes, api) ==
  IF ~api.ok \/ JSONparseExercise(JsonTextOf(api.text)).throws
    THEN ExerciseFallback(durationMinutes)
    ELSE JSONparseExercise(JsonTextOf(api.text)).value

\* if (result && result.calories) setManualCalories(result.calories.toString())
ExerciseAfterEstimate(form, result) ==
  [form EXCEPT !.isEstimating = FALSE,
               !.manualCalories = IF ~result.isNull /\ result.kind # "undefined"
                                       /\ result.calories # 0
                                    THEN <<result.calories>> ELSE @]

EstimateDetail(api, durationMinutes, result) ==
  [api |-> api, duration |-> durationMinutes, result |-> result]

resolveEstimate(i, api) ==
  /\ i \in InFlight("exercise")
  /\ LET result == estimateExercise(updates[i].text, updates[i].duration, api)
         mounted == call.view = "exercise" /\ updates[i].mount = expected.exercise
     IN  /\ call' = IF mounted
                      THEN [call EXCEPT !.exercise = ExerciseAfterEstimate(@, result)]
                      ELSE call
         /\ lastOp' = FormOp("resolveEstimate", mounted,
                             EstimateDetail(api, updates[i].duration, result))
  /\ updates' = Without(updates, i)
  /\ UNCHANGED <<formFrame, expected>>

Views == {"dashboard", "food", "exercise"}

FormsInit ==
  /\ Mounted
  /\ call = [view |-> "dashboard", food |-> FoodFormInit, exercise |-> ExerciseFormInit,
             alert |-> ""]
  /\ updates = NoUpdates
  /\ expected = NoCalls
  /\ renderedAt = ConstructionTime

FormsNext ==
  \/ \E view \in Views : setCurrentView(view)
  \/ openFoodForm
  \/ FoodModule_resetForm
  \/ \E text \in FormTexts : setDescription(text)
  \/ removePhoto
  \/ clickEstimateText
  \/ clickRefine
  \/ \E compressed \in BOOLEAN : handleFileChange(compressed)
  \/ \E i \in 1..MaxCalls, api \in ApiOutcomes : resolveAnalyze(i, api)
  \/ saveMeal
  \/ openExerciseForm
  \/ ExerciseModule_resetForm
  \/ \E a \in {"", "run"}, d \in DurationTexts : fillExerciseForm(a, d)
  \/ handleEstimate
  \/ \E i \in 1..MaxCalls, api \in ExerciseOutcomes : resolveEstimate(i, api)

SpecForms == FormsInit /\ [][FormsNext]_vars

EstimateResolved == lastOp.op = "resolveEstimate"

\* C21: estimateExercise resolves to an object with a numeric calories
\* field whatever the estimation API does, and to round(durationMinutes * 5)
\* when the request fails
C21_Original ==
  EstimateResolved =>
    /\ ~lastOp.detail.result.isNull
    /\ lastOp.detail.result.kind = "number"
    /\ ~lastOp.detail.api.ok => lastOp.detail.result.calories = 5 * lastOp.detail.duration

AnalyzeResolved == lastOp.op = "resolveAnalyze"

\* the request of the call that resolved failed
RequestFailed ==
  AnalyzeResolved /\ lastOp.detail.threw /\ lastOp.detail.requests = 1

\* C22: when the request of a food estimation fails, analyzeFood throws
\* its error, no entry collection changes, the failure is shown, and the
\* form that started the estimation is no longer analyzing, so that its
\* triggers are enabled again
C22_FailedEstimate ==
  RequestFailed =>
    /\ lastOp.detail.error = "Failed to analyze food. Please try again."
    /\ collections = lastOp.collections
    /\ call.alert = AnalysisAlert
    /\ lastOp.mounted =>
         /\ ~call.food.analyzing
         /\ call.food.description = lastOp.before.food.description
         /\ call.food.hasAnalyzed = lastOp.before.food.hasAnalyzed

C22_Witness ==
  /\ RequestFailed
  /\ lastOp.mounted
  /\ lastOp.before.food.analyzing
  /\ call.food.isAdding
  /\ call.food.previewUrl = Nothing
  /\ LongDescription(call.food.description)
  /\ ~call.food.hasAnalyzed
  /\ Len(foods) = 1

\* C24: of each estimation form at most one call is in flight
C24_Original ==
  \A form \in {"food", "exercise"} : Cardinality(InFlight(form)) <= 1

\* C30: a response that arrives when the food form has been closed during
\* the estimation leaves the fields of the form empty and the form not
\* marked as analysed
C30_Original ==
  (AnalyzeResolved /\ lastOp.mounted /\ ~lastOp.before.food.isAdding) =>
    /\ call.food.description = Str("")
    /\ call.food.calories = Nothing
    /\ call.food.macros = Str("")
    /\ ~call.food.hasAnalyzed

\* ------------------------------------------------------------------------
\* The exercise reminder (App, "Exercise Notification Logic"): an interval
\* of 10 seconds set by an effect that depends on currentProfile
\* ------------------------------------------------------------------------

\* calendar days of one run of the reminder
MaxDays == 2

\* minutes of each day that the run visits (from 08:00 on); in the minutes
\* left out no profile has its reminder and every poll returns at once
MaxMinutes == 1

\* setInterval(checkReminder, 10000)
PollIntervalMs == 10000

PollsPerMinute == 60000 \div PollIntervalMs

MaxSlots == MaxDays * MaxMinutes * PollsPerMinute

\* new Date() in the n-th interval of 10 seconds of the run
ReminderNow(slot) ==
  [day |-> DaysFromCivil(2024, 2, 29) + (slot \div (MaxMinutes * PollsPerMinute)),
   hours |-> 8,
   minutes |-> (slot \div PollsPerMinute) % MaxMinutes,
   seconds |-> (PollIntervalMs \div 1000) * (slot % PollsPerMinute)]

DigitTable == <<"0", "1", "2", "3", "4", "5", "6", "7", "8", "9">>

\* n.toString().padStart(2, '0')
padStart2(n) ==
  IF n < 10 THEN <<"0", DigitTable[n + 1]>>
  ELSE <<DigitTable[(n \div 10) + 1], DigitTable[(n % 10) + 1]>>

\* `${hours padded}:${minutes padded}`
currentTimeOf(now) == padStart2(now.hours) \o <<":">> \o padStart2(now.minutes)

\* now.toDateString() + ':' + currentTime
todayStrOf(now) == DateString(CivilFromDays(now.day)) \o <<":">> \o currentTimeOf(now)

\* the values of the time field of the reminder form, and no time
ReminderTimes == {<<>>} \cup {currentTimeOf(ReminderNow(m * PollsPerMinute)) : m \in 0..(MaxMinutes - 1)}

ReminderProfileIds == {DEFAULT_PROFILE_ID, UserIdTable[1]}

ReminderProfile(id, enabled, time) ==
  [id |-> id, gender |-> INITIAL_PROFILE.gender, age |-> INITIAL_PROFILE.age,
   heightCm |-> INITIAL_PROFILE.heightCm,
   exerciseReminderEnabled |-> enabled, exerciseReminderTime |-> time]

\* `last_exercise_notification_${currentProfile.id}`
MarkerKey(id) == <<"last_exercise_notification_", id>>

\* the effect returns before it sets the interval
NoInterval(p) == ~p.exerciseReminderEnabled \/ p.exerciseReminderTime = <<>>

ReminderProfileOf(ps, pid) == ps[CHOOSE i \in 1..Len(ps) : ps[i].id = pid]

\* what a step of the reminder did: the profile and the clock of the poll,
\* whether a notification was shown, and whether one had been shown before
\* for the same profile, day and time
ReminderOp(op, now, notified, again) ==
  [op |-> op, id |-> currentProfileId, now |-> now, notified |-> notified, again |-> again]

reminderFrame ==
  <<isInitialized, foods, exercises, weights, measurements, dashboardDate,
    statsMemo, updates, renderedAt>>

\* the notification of one poll: <<profile, day, time>>
Fired(pid, now) == <<pid, now.day, currentTimeOf(now)>>

\* whether an exception of localStorage.setItem leaves checkReminder: the
\* write of the marker is not wrapped in a try
setItemThrows(writeFails) == writeFails

\* checkReminder, 10 seconds after the previous poll (or after the effect
\* has set the interval); the permission for notifications is granted
checkReminder(writeFails) ==
  /\ call.slot + 1 < MaxSlots
  /\ ~NoInterval(ReminderProfileOf(profiles, currentProfileId))
  /\ call' = [call EXCEPT !.slot = call.slot + 1]
  /\ IF currentTimeOf(ReminderNow(call.slot + 1))
          = ReminderProfileOf(profiles, currentProfileId).exerciseReminderTime
        /\ storage[MarkerKey(currentProfileId)] # Item(todayStrOf(ReminderNow(call.slot + 1)))
     THEN /\ expected' = expected \cup {Fired(currentProfileId, ReminderNow(call.slot + 1))}
          /\ lastOp' = ReminderOp("checkReminder", ReminderNow(call.slot + 1), TRUE,
                                  Fired(currentProfileId, ReminderNow(call.slot + 1)) \in expected)
          /\ storage' = IF setItemThrows(writeFails) THEN storage
                        ELSE [storage EXCEPT ![MarkerKey(currentProfileId)] =
                                Item(todayStrOf(ReminderNow(call.slot + 1)))]
     ELSE /\ lastOp' = ReminderOp("checkReminder", ReminderNow(call.slot + 1), FALSE, FALSE)
          /\ UNCHANGED <<expected, storage>>
  /\ UNCHANGED <<reminderFrame, profiles, currentProfileId>>

\* 10 seconds pass while no interval is set
elapse ==
  /\ call.slot + 1 < MaxSlots
  /\ NoInterval(ReminderProfileOf(profiles, currentProfileId))
  /\ call' = [call EXCEPT !.slot = call.slot + 1]
  /\ lastOp' = ReminderOp("elapse", ReminderNow(call.slot + 1), FALSE, FALSE)
  /\ UNCHANGED <<reminderFrame, profiles, currentProfileId, expected, storage>>

\* handleSwitchProfile(id): the effect clears the interval and sets a new
\* one for the profile now active
switchReminderProfile(id) ==
  /\ id # currentProfileId
  /\ currentProfileId' = id
  /\ lastOp' = ReminderOp("handleSwitchProfile", ReminderNow(call.slot), FALSE, FALSE)
  /\ UNCHANGED <<reminderFrame, profiles, call, expected, storage>>

\* handleUpdateProfile({...currentProfile, exerciseReminderEnabled, exerciseReminderTime})
updateReminder(enabled, time) ==
  /\ ReminderProfileOf(profiles, currentProfileId) # ReminderProfile(currentProfileId, enabled, time)
  /\ profiles' = [i \in 1..Len(profiles) |->
                    IF profiles[i].id = currentProfileId
                    THEN ReminderProfile(currentProfileId, enabled, time)
                    ELSE profiles[i]]
  /\ lastOp' = ReminderOp("handleUpdateProfile", ReminderNow(call.slot), FALSE, FALSE)
  /\ UNCHANGED <<reminderFrame, currentProfileId, call, expected, storage>>

ReminderInit ==
  /\ isInitialized = TRUE
  /\ profiles = <<ReminderProfile(DEFAULT_PROFILE_ID, FALSE, <<>>),
                  ReminderProfile(UserIdTable[1], FALSE, <<>>)>>
  /\ currentProfileId = DEFAULT_PROFILE_ID
  /\ foods = <<>> /\ exercises = <<>> /\ weights = <<>> /\ measurements = <<>>
  /\ dashboardDate = ConstructionTime
  /\ statsMemo =
       renderStatsMemo([array |-> <<>>, todayBMR |-> todayBMROf(<<>>, "", <<>>)],
                       TRUE, profiles, currentProfileId, <<>>, <<>>, <<>>,
                       ConstructionTime)
  /\ storage = [k \in {MarkerKey(id) : id \in ReminderProfileIds} |-> NoItem]
  /\ lastOp = ReminderOp("mount", ReminderNow(0), FALSE, FALSE)
  /\ call = [slot |-> 0]
  /\ updates = NoUpdates
  /\ expected = {}
  /\ renderedAt = ConstructionTime

ReminderNext ==
  \/ \E writeFails \in BOOLEAN : checkReminder(writeFails)
  \/ elapse
  \/ \E id \in ReminderProfileIds : switchReminderProfile(id)
  \/ \E enabled \in BOOLEAN, time \in ReminderTimes : updateReminder(enabled, time)

SpecReminder == ReminderInit /\ [][ReminderNext]_vars

\* C23: no poll shows a notification for a profile, a day and a time of
\* day for which a notification has been shown already, whether or not the
\* write of the marker succeeds
C23_Original == (lastOp.op = "checkReminder" /\ lastOp.notified) => ~lastOp.again

\* ------------------------------------------------------------------------
\* Start-up of App, commit by commit, with the texts that localStorage
\* holds.  A commit is a render with the effects that follow it; a setter
\* called by an effect takes effect in the next render.  Every write of
\* the storage succeeds.
\* ------------------------------------------------------------------------

\* A value of the program: an array (level 0 of an array), a string that
\* is no JSON text (level 0 of chars), or the string that JSON.stringify
\* makes of one of them (one level up).
ArrayOf(entries) == [array |-> TRUE, entries |-> entries, chars |-> "", level |-> 0]

Plain(chars) == [array |-> FALSE, entries |-> <<>>, chars |-> chars, level |-> 0]

IsArray(v) == v.array /\ v.level = 0

\* JSON.stringify(data)
stringify(data) == [data EXCEPT !.level = @ + 1]

\* JSON.parse(text) throws a SyntaxError
parseThrows(text) == text.level = 0

\* JSON.parse(text): what was stringified
parse(text) == [text EXCEPT !.level = @ - 1]

\* saveToStorage(key, data) with the text it stores
saveJSON(st, key, data) == [st EXCEPT ![key] = Item(stringify(data))]

LegacyKey(c) == GlobalKey(c)

\* profiles added in one run
MaxAdds == 1

StartupProfileIds == {DEFAULT_PROFILE_ID} \cup {UserIdTable[n] : n \in 1..MaxAdds}

StartupKeys ==
  {GlobalKey(k) : k \in {"vs_profiles", "vs_active_id", "vs_app_version", "vs_profile"}}
    \cup {LegacyKey(c) : c \in Collections}
    \cup {CollectionKey(c, pid) : c \in Collections, pid \in StartupProfileIds}

NothingStored == [k \in StartupKeys |-> NoItem]

\* the text of a collection with one entry, as saveToStorage wrote it
StoredEntries(c) == Item(stringify(ArrayOf(<<NewEntry(c, ConstructionTime)>>)))

\* the storages App starts with: of a first run (with or without the
\* collections of the version that had no profiles), of a user who comes
\* back with one or two profiles, and one whose profile list is no JSON
FirstRunStorages ==
  {[NothingStored EXCEPT ![LegacyKey("foods")] = f, ![LegacyKey("weights")] = w] :
     f \in {NoItem, StoredEntries("foods")}, w \in {NoItem, StoredEntries("weights")}}

ReturningStorages ==
  {[NothingStored EXCEPT
      ![GlobalKey("vs_profiles")] = Item(stringify(ArrayOf(ps))),
      ![GlobalKey("vs_active_id")] = Item(stringify(Plain(ps[Len(ps)].id))),
      ![GlobalKey("vs_app_version")] = Item(Plain(APP_VERSION)),
      ![CollectionKey("foods", DEFAULT_PROFILE_ID)] = f] :
     ps \in {<<INITIAL_PROFILE>>, <<INITIAL_PROFILE, NewProfile(UserIdTable[1])>>},
     f \in {NoItem, StoredEntries("foods")}}

BrokenStorages ==
  {[NothingStored EXCEPT
      ![GlobalKey("vs_profiles")] = Item(Plain("[{")),
      ![CollectionKey("foods", DEFAULT_PROFILE_ID)] = StoredEntries("foods")]}

StartStorages == FirstRunStorages \cup ReturningStorages \cup BrokenStorages

\* the setters called by the effects of a commit: for every state the
\* value it is set to, if any
NoPending ==
  [isInitialized |-> Nothing, profiles |-> Nothing, currentProfileId |-> Nothing,
   cols |-> [c \in Collections |-> Nothing]]

SetProfiles(ps, pid) ==
  [NoPending EXCEPT !.isInitialized = <<TRUE>>, !.profiles = <<ps>>,
                    !.currentProfileId = <<pid>>]

\* migrate(oldKey, newKeySuffix): the text read is handed to saveToStorage
migrate(st, c, pid) ==
  IF HasItem(st[LegacyKey(c)])
    THEN saveJSON(st, CollectionKey(c, pid), ItemValue(st[LegacyKey(c)]))
    ELSE st

\* "Check for App Update"
checkVersion(st) ==
  IF st[GlobalKey("vs_app_version")] # Item(Plain(APP_VERSION))
    THEN [st EXCEPT ![GlobalKey("vs_app_version")] = Item(Plain(APP_VERSION))]
    ELSE st

\* the id setCurrentProfileId receives on a normal load: the stored active
\* id is the text getItem returns, compared with the ids of the profiles
StoredOrFirstId(parsedProfiles, storedActiveId) ==
  IF /\ HasItem(storedActiveId)
     /\ \E i \in 1..Len(parsedProfiles) :
          Plain(parsedProfiles[i].id) = ItemValue(storedActiveId)
    THEN ItemValue(storedActiveId).chars
    ELSE parsedProfiles[1].id

\* the initialization effect: the storage it leaves and the setters it calls
initEffect(st) ==
  IF HasItem(st[GlobalKey("vs_profiles")])
    THEN IF parseThrows(ItemValue(st[GlobalKey("vs_profiles")]))
           THEN [storage |-> st, pending |-> SetProfiles(<<INITIAL_PROFILE>>, DEFAULT_PROFILE_ID)]
           ELSE [storage |-> checkVersion(st),
                 pending |-> SetProfiles(
                   parse(ItemValue(st[GlobalKey("vs_profiles")])).entries,
                   StoredOrFirstId(parse(ItemValue(st[GlobalKey("vs_profiles")])).entries,
                                   st[GlobalKey("vs_active_id")]))]
    ELSE [storage |->
            checkVersion(
              migrate(migrate(migrate(migrate(
                saveJSON(saveJSON(st, GlobalKey("vs_profiles"), ArrayOf(<<INITIAL_PROFILE>>)),
                         GlobalKey("vs_active_id"), Plain(INITIAL_PROFILE.id)),
                "foods", INITIAL_PROFILE.id), "exercises", INITIAL_PROFILE.id),
                "weights", INITIAL_PROFILE.id), "measurements", INITIAL_PROFILE.id)),
          pending |-> SetProfiles(<<INITIAL_PROFILE>>, INITIAL_PROFILE.id)]

\* load(key, setter) of the load effect: the value handed to the setter
loadJSON(st, c, pid) ==
  IF HasItem(st[CollectionKey(c, pid)])
    THEN IF parseThrows(ItemValue(st[CollectionKey(c, pid)]))
           THEN ArrayOf(<<>>)
           ELSE parse(ItemValue(st[CollectionKey(c, pid)]))
    ELSE ArrayOf(<<>>)

\* the state of App in one render
AppState(init, ps, pid, cols) ==
  [isInitialized |-> init, profiles |-> ps, currentProfileId |-> pid, cols |-> cols]

appState == AppState(isInitialized, profiles, currentProfileId, collections)

IdChanged(changed) == changed \cap {"currentProfileId", "isInitialized"} # {}

\* the load effect runs and passes its guard
LoadRuns(s, changed) == IdChanged(changed) /\ s.currentProfileId # "" /\ s.isInitialized

\* a save effect of a collection runs and passes its guard
SaveRuns(s, changed, c) ==
  /\ c \in changed \/ IdChanged(changed)
  /\ s.isInitialized /\ s.currentProfileId # ""

saveOne(st, s, changed, c) ==
  IF SaveRuns(s, changed, c)
    THEN saveJSON(st, CollectionKey(c, s.currentProfileId), s.cols[c])
    ELSE st

saveProfileList(st, s, changed) ==
  IF changed \cap {"profiles", "isInitialized"} # {} /\ s.isInitialized /\ Len(s.profiles) > 0
    THEN saveJSON(st, GlobalKey("vs_profiles"), ArrayOf(s.profiles))
    ELSE st

\* the write of the active id by the load effect
afterLoadEffect_NoWrite(st, s, changed) == st

afterLoadEffect(st, s, changed) ==
  IF LoadRuns(s, changed)
    THEN saveJSON(st, GlobalKey("vs_active_id"), Plain(s.currentProfileId))
    ELSE st

\* the effects of a commit of state s in which the states named in
\* changed differ from the render before: the load effect, the four save
\* effects and the save effect of the profile list, in this order
effectsOf(st, s, changed) ==
  [storage |->
     saveProfileList(
       saveOne(saveOne(saveOne(saveOne(afterLoadEffect(st, s, changed),
         s, changed, "foods"), s, changed, "exercises"), s, changed, "weights"),
         s, changed, "measurements"),
       s, changed),
   pending |->
     IF LoadRuns(s, changed)
       THEN [NoPending EXCEPT !.cols =
               [c \in Collections |->
                  <<loadJSON(afterLoadEffect(st, s, changed), c, s.currentProfileId)>>]]
       ELSE NoPending]

\* foods.filter and exercises.filter of the render throw a TypeError when
\* the state is no array; no error boundary encloses App
AppRenderThrows(s) == ~IsArray(s.cols["foods"]) \/ ~IsArray(s.cols["exercises"])

Pick(optional, current) == IF optional = Nothing THEN current ELSE optional[1]

\* the state of the render that applies the queued setters
Applied(s, pending) ==
  AppState(Pick(pending.isInitialized, s.isInitialized),
           Pick(pending.profiles, s.profiles),
           Pick(pending.currentProfileId, s.currentProfileId),
           [c \in Collections |-> Pick(pending.cols[c], s.cols[c])])

\* the states a render sees changed: a boolean or a string that differs,
\* and every array that was set (a new object)
ChangedBy(s, pending) ==
  {n \in {"isInitialized", "currentProfileId"} : Applied(s, pending)[n] # s[n]}
    \cup (IF pending.profiles # Nothing THEN {"profiles"} ELSE {})
    \cup {c \in Collections : pending.cols[c] # Nothing}

setAppState(s) ==
  /\ isInitialized' = s.isInitialized
  /\ profiles' = s.profiles
  /\ currentProfileId' = s.currentProfileId
  /\ foods' = s.cols["foods"]
  /\ exercises' = s.cols["exercises"]
  /\ weights' = s.cols["weights"]
  /\ measurements' = s.cols["measurements"]

\* what a step was, and whether App was initialized before it
StartupOp(op) == [op |-> op, before |-> [isInitialized |-> isInitialized]]

Running == call.phase = "running"

\* a commit of state s, or the loss of the tree when the render throws
commit(op, s, changed) ==
  /\ setAppState(s)
  /\ lastOp' = StartupOp(op)
  /\ IF AppRenderThrows(s)
       THEN /\ call' = [call EXCEPT !.phase = "crashed"]
            /\ updates' = NoPending
            /\ UNCHANGED storage
       ELSE /\ storage' = effectsOf(storage, s, changed).storage
            /\ updates' = effectsOf(storage, s, changed).pending
            /\ UNCHANGED call

\* the first commit: the initialization effect; the load effect and the
\* save effects return at their guards
mountApp ==
  /\ call.phase = "constructed"
  /\ call' = [call EXCEPT !.phase = "running"]
  /\ storage' = initEffect(storage).storage
  /\ updates' = initEffect(storage).pending
  /\ lastOp' = StartupOp("mount")
  /\ UNCHANGED <<isInitialized, profiles, currentProfileId, foods, exercises,
                 weights, measurements, dashboardDate, statsMemo, expected, renderedAt>>

\* the render that applies the queued setters, and its effects
renderQueued ==
  /\ Running
  /\ updates # NoPending
  /\ commit("render", Applied(appState, updates), ChangedBy(appState, updates))
  /\ UNCHANGED <<dashboardDate, statsMemo, expected, renderedAt>>

Settled == Running /\ isInitialized /\ updates = NoPending

\* handleAddProfile at clock reading n (the reading of the last call or a
\* later one), with its commit
addProfileAt(n) ==
  /\ Settled
  /\ expected.added < MaxAdds
  /\ n \in {expected.clock, expected.clock + 1} /\ n >= 1 /\ n <= MaxAdds
  /\ expected' = [expected EXCEPT !.clock = n, !.added = @ + 1]
  /\ commit("handleAddProfile",
            [appState EXCEPT !.profiles = Append(profiles, NewProfile(UserIdTable[n])),
                             !.currentProfileId = UserIdTable[n]],
            {"profiles"} \cup (IF UserIdTable[n] # currentProfileId
                                 THEN {"currentProfileId"} ELSE {}))
  /\ UNCHANGED <<dashboardDate, statsMemo, renderedAt>>

\* handleSwitchProfile(id), with its commit
switchProfileTo(id) ==
  /\ Settled
  /\ \E i \in 1..Len(profiles) : profiles[i].id = id
  /\ dashboardDate' = Reading(expected.clock)
  /\ commit("handleSwitchProfile", [appState EXCEPT !.currentProfileId = id],
            IF id # currentProfileId THEN {"currentProfileId"} ELSE {})
  /\ UNCHANGED <<statsMemo, expected, renderedAt>>

\* handleUpdateProfile(updatedProfile), with its commit
updateProfileTo(updatedProfile) ==
  /\ Settled
  /\ commit("handleUpdateProfile",
            [appState EXCEPT !.profiles =
               [i \in 1..Len(profiles) |->
                  IF profiles[i].id = updatedProfile.id THEN updatedProfile
                  ELSE profiles[i]]],
            {"profiles"})
  /\ UNCHANGED <<dashboardDate, statsMemo, expected, renderedAt>>

\* setFoods([...foods, f]) of a save handler, with its commit
appendFood ==
  /\ Settled
  /\ Len(foods.entries) < MaxOwned
  /\ commit("append",
            [appState EXCEPT !.cols["foods"] =
               ArrayOf(Append(foods.entries, NewEntry("foods", Reading(expected.clock))))],
            {"foods"})
  /\ UNCHANGED <<dashboardDate, statsMemo, expected, renderedAt>>

\* handleDeleteFood(id), with its commit
deleteFood(id) ==
  /\ Settled
  /\ commit("delete",
            [appState EXCEPT !.cols["foods"] = ArrayOf(WithoutId(foods.entries, id))],
            {"foods"})
  /\ UNCHANGED <<dashboardDate, statsMemo, expected, renderedAt>>

\* the forms of the profile editor for the active profile
UpdatedProfiles ==
  {[id |-> currentProfileId, gender |-> "male", age |-> 41, heightCm |-> 180]}

StartupInit ==
  /\ isInitialized = FALSE
  /\ profiles = <<>>
  /\ currentProfileId = ""
  /\ foods = ArrayOf(<<>>)
  /\ exercises = ArrayOf(<<>>)
  /\ weights = ArrayOf(<<>>)
  /\ measurements = ArrayOf(<<>>)
  /\ dashboardDate = ConstructionTime
  /\ statsMemo = [array |-> <<>>, todayBMR |-> todayBMROf(<<>>, "", <<>>)]
  /\ storage \in StartStorages
  /\ lastOp = [op |-> "construct", before |-> [isInitialized |-> FALSE]]
  /\ call = [phase |-> "constructed"]
  /\ updates = NoPending
  /\ expected = [clock |-> 0, added |-> 0, before |-> storage]
  /\ renderedAt = ConstructionTime

StartupNext ==
  \/ mountApp
  \/ renderQueued
  \/ \E n \in 1..MaxAdds : addProfileAt(n)
  \/ \E id \in StartupProfileIds : switchProfileTo(id)
  \/ \E updatedProfile \in UpdatedProfiles : updateProfileTo(updatedProfile)
  \/ appendFood
  \/ \E id \in {DateNowString(t) : t \in {ConstructionTime} \cup {Reading(n) : n \in 0..MaxAdds}} :
       deleteFood(id)

SpecStartup == StartupInit /\ [][StartupNext]_vars

\* the profile that is or is about to become the active one
ActiveId == Pick(updates.currentProfileId, currentProfileId)

\* from the first render until the render that applies the setters of the
\* first load effect
StartingUp ==
  /\ Running
  /\ lastOp.op \in {"mount", "render"}
  /\ ~lastOp.before.isInitialized

\* C25: during start-up every collection that was stored for the active
\* profile before the start is stored unchanged; no save effect has
\* replaced it by the empty initial array
C25_Original ==
  (StartingUp /\ ActiveId # "") =>
    \A c \in Collections :
      HasItem(expected.before[CollectionKey(c, ActiveId)]) =>
        storage[CollectionKey(c, ActiveId)] = expected.before[CollectionKey(c, ActiveId)]

\* the stored texts are the texts of the state in memory
Persisted ==
  /\ storage[GlobalKey("vs_profiles")] = Item(stringify(ArrayOf(profiles)))
  /\ storage[GlobalKey("vs_active_id")] = Item(stringify(Plain(currentProfileId)))
  /\ \A c \in Collections :
       storage[CollectionKey(c, currentProfileId)] = Item(stringify(collections[c]))

\* C26: after an append, a delete, a profile update, a profile add or a
\* profile switch, once no setter of an effect is pending, the stored
\* profile list, the stored active id and the four collections stored for
\* the active profile are those in memory
C26_Persisted ==
  (Settled /\ lastOp.op \notin {"construct", "mount"}) => Persisted

C26_Witness ==
  /\ Settled
  /\ lastOp.op = "render"
  /\ lastOp.before.isInitialized
  /\ Len(profiles) = 2
  /\ currentProfileId = DEFAULT_PROFILE_ID
  /\ profiles[1].gender = "male"
  /\ Len(foods.entries) = 1
  /\ Persisted

\* C27: once initialized, the active id is the id of exactly one profile
C27_Original ==
  (isInitialized /\ Running) =>
    Cardinality({i \in 1..Len(profiles) : profiles[i].id = currentProfileId}) = 1

\* a first run that finds collections of the version without profiles
LegacyCollections == {c \in Collections : HasItem(expected.before[LegacyKey(c)])}

FirstRunWithLegacy ==
  /\ ~HasItem(expected.before[GlobalKey("vs_profiles")])
  /\ LegacyCollections # {}

\* the commit of the render that follows the first load effect
FirstLoadDone ==
  /\ lastOp.op = "render"
  /\ lastOp.before.isInitialized
  /\ expected.clock = 0

\* C28: after the first load of a first run with legacy collections, the
\* collections of the default profile in memory and in the storage are the
\* legacy collections
C28_Original ==
  (FirstRunWithLegacy /\ FirstLoadDone) =>
    /\ Running
    /\ \A c \in LegacyCollections :
         /\ collections[c] = parse(ItemValue(expected.before[LegacyKey(c)]))
         /\ storage[CollectionKey(c, DEFAULT_PROFILE_ID)] = expected.before[LegacyKey(c)]

\* ------------------------------------------------------------------------
\* The import of a backup that is refused (SpecBackup)
\* ------------------------------------------------------------------------

\* window.location.reload() of handleImport: called after the restore when
\* at least one item was imported
Reloads(importCount) == importCount > 0

\* the file picked is no JSON text, or the user declined the confirmation
Refused == Imported /\ (~call.file.parses \/ ~call.confirmed)

\* C29: an import of a file that is no JSON, or that the user declines,
\* leaves every stored key with its value and does not reload the app
C29_RefusedImport ==
  Refused => (storage = call.before /\ ~Reloads(call.importCount))

C29_Witness ==
  /\ Refused
  /\ \E k \in DOMAIN storage : startsWith(k, VsPrefix) /\ HasItem(storage[k])
  /\ \/ ~call.file.parses
     \/ call.file.parses /\ ~ImportThrows(call.file) /\ Restored(call.file) # {}
====
